---------------------------- MODULE Spec2Model ----------------------------
(***************************************************************************)
(* Binding & auto-publish subsystem of xrm-webresource-publisher.          *)
(*                                                                         *)
(* These state machines share this module:                                   *)
(*   SpecClient  the request primitive of the remote client                *)
(*               (internal/d365/client.go) and the two places where the    *)
(*               orchestrator builds a client;                             *)
(*   SpecWatch   one watcher instance with its debounce clock              *)
(*               (package watcher);                                        *)
(*   Spec        the orchestrator's message loop (internal/tui/update.go)  *)
(*               with its asynchronous commands;                           *)
(*   SpecPublish the same loop from the list screen of one environment     *)
(*               on, without the actions that leave that screen;           *)
(*   SpecConfig  the configuration document (package config), the token    *)
(*               files, and the environment screen's calls on them.        *)
(* Every variable is given a value by each Init; a specification leaves    *)
(* the variables of the other machines unchanged.                          *)
(***************************************************************************)
EXTENDS Integers, Sequences, FiniteSets, TLC

VARIABLES
    \* ---- request primitive (d365.Client) ----
    cl,          \* the Client struct: accessToken, tokenRefresh set or nil
    call,        \* the doRequest call in flight and what it has done so far
    nCalls,      \* number of doRequest calls started
    \* ---- one watcher instance (package watcher) ----
    wt,          \* the Watcher struct: files, dirs, and the OS watch list
    debounce,    \* Watcher.debounce: path -> time of the last emitted change
    now,         \* time.Now(), in milliseconds
    emits,       \* per path, the time of the last onChange call, if any
    lastEv,      \* the last event taken from watcher.Events by run()
    evFlip,      \* flips at every event run() takes
    \* ---- orchestrator (tui.Model and what it shares with its commands) ----
    state,       \* Model.state: the screen
    cur,         \* Config.CurrentEnvironment
    bindings,    \* Config.Bindings, in document order
    store,       \* credential store: the token file of each environment
    mClient,     \* Model.client
    resources,   \* Model.resources / Model.displayItems (resource ids)
    bindingResource, \* Model.bindingResource
    mWatcher,    \* Model.watcher: index into watchers, 0 for nil
    watchers,    \* every Watcher made by setupWatchers (none is ever closed)
    chan,        \* Model.fileChangeChan
    waiters,     \* pending waitForFileChange commands
    publishing,  \* Model.publishing: resource ids marked in progress
    cmds,        \* commands in flight and their messages not yet handled
    nPub,        \* publish triggers so far
    nEdits,      \* binding edits so far
    \* ---- configuration document (config.Config) and token files ----
    doc,         \* the Config in memory: CurrentEnvironment, Environments, Bindings
    disk,        \* config.json as last written by Save
    tokenFiles,  \* token-<name>.json file -> the Token in it, for the files present
    cfgOp,       \* the last call on the document and the state it was made in
    nOps,        \* calls on the document so far
    \* ---- incrementVersion ----
    verArg,      \* the version passed to the last incrementVersion call
    verRes,      \* what that call returned; <<>> before the first call
    \* ---- one PollForToken call (package auth, device code flow) ----
    poll,        \* where the call is, what it last received, what it returned
    pollNow,     \* time.Now(), in seconds since the call began
    tickReady,   \* ticker.C holds a tick
    \* ---- the token files (package auth) and the last call on them ----
    credFiles,   \* token file -> the Token written in it, for the files present
    credOp,      \* the last LoadToken, SaveToken or DeleteToken call
    \* ---- the text input of the environment list (internal/tui) ----
    envInput     \* inputMode, editingEnvName, and what the user did in this flow

clientVars == <<cl, call, nCalls>>

watchVars == <<wt, debounce, now, emits, lastEv, evFlip>>

orchVars == <<state, cur, bindings, store, mClient, resources, bindingResource,
              mWatcher, watchers, chan, waiters, publishing, cmds, nPub, nEdits>>

configVars == <<doc, disk, tokenFiles, cfgOp, nOps>>

versionVars == <<verArg, verRes>>

\* The variables of the machines that are not part of the program's loop.
pollVars == <<poll, pollNow, tickReady>>

credVars == <<credFiles, credOp>>

inputVars == <<envInput>>

libVars == <<versionVars, pollVars, credVars, inputVars>>

vars == <<clientVars, watchVars, orchVars, configVars, libVars>>

-----------------------------------------------------------------------------
(* Bounds *)

MaxCalls == 3          \* doRequest calls per behaviour
MaxToken == 2          \* distinct non-empty access tokens 1..MaxToken
MaxTicks == 2          \* clock ticks per behaviour
TickMs == 150          \* milliseconds per clock tick
MaxDirEntries == 2     \* length of one Watcher.dirs[dir] slice
PollStepSec == 30      \* seconds between two observations of the clock
IntervalSec == 5       \* the interval argument of PollForToken, in seconds
MaxParts == 4          \* dot-separated parts of a version string
MaxOps == 2            \* calls on the configuration document per behaviour

-----------------------------------------------------------------------------
(* Request primitive: internal/d365/client.go *)

StatusUnauthorized == 401

\* Access tokens are 1..MaxToken; 0 is the empty string.
Tokens == 1..MaxToken
EmptyToken == 0

\* What the transport can answer to one send: a response with a status
\* code, or no response at all (httpClient.Do or io.ReadAll returned an
\* error).
Statuses == {200, 204, 304, 400, 401, 404, 500}
Answers ==
    {[err |-> TRUE, status |-> 0]} \cup {[err |-> FALSE, status |-> s] : s \in Statuses}

\* What the refresh callback can return: an error, or a token that may be
\* the empty string.
RefreshOutcomes ==
    {[err |-> TRUE, token |-> EmptyToken]} \cup
    {[err |-> FALSE, token |-> t] : t \in {EmptyToken} \cup Tokens}

NoClient == [accessToken |-> EmptyToken, tokenRefresh |-> FALSE, made |-> "none"]

\* answers and refreshOuts record what the call received, sentWith the
\* bearer token of each send, tok0 the client's token when the call began.
IdleCall ==
    [pc |-> "idle", allowRetry |-> TRUE, sends |-> 0, refreshes |-> 0,
     answers |-> <<>>, refreshOuts |-> <<>>, sentWith |-> <<>>,
     result |-> "none", tok0 |-> EmptyToken]

\* NewClient: tokenRefresh is left nil.
NewClient(accessToken) ==
    [accessToken |-> accessToken, tokenRefresh |-> FALSE, made |-> "new"]

\* SetTokenRefreshFunc, as called by Model.setupTokenRefresh.
SetTokenRefreshFunc(c) == [c EXCEPT !.tokenRefresh = TRUE]

\* handleEnvSelectKey, "enter" with a stored unexpired token: the client is
\* built and used as it is.
ClientFromStoredToken(accessToken) ==
    [NewClient(accessToken) EXCEPT !.made = "stored"]

\* Update, tokenMsg: the client is built and setupTokenRefresh is called.
ClientFromLogin(accessToken) ==
    [SetTokenRefreshFunc(NewClient(accessToken)) EXCEPT !.made = "login"]

MutRetryAllowRetry == TRUE

\* The allowRetry argument of the recursive call after a successful refresh.
RetryAllowRetry == FALSE

\* The test guarding the refresh: allowRetry && c.tokenRefresh != nil.
MayRefresh(c, k) == k.allowRetry /\ c.tokenRefresh

MutRefreshSucceeded(out) == ~out.err

\* The test on the callback's result: refreshErr == nil && newToken != "".
RefreshSucceeded(out) == ~out.err /\ out.token # EmptyToken

\* Result of a response that is not a 401.
ResultOfStatus(status) == IF status >= 400 THEN "APIError" ELSE "ok"

\* A new Client object replaces the one in use; no call has been made on it.
CreateStored(t) ==
    /\ call.pc \in {"idle", "done"}
    /\ cl' = ClientFromStoredToken(t)
    /\ call' = IdleCall
    /\ UNCHANGED <<nCalls, watchVars, orchVars, configVars, libVars>>

CreateLogin(t) ==
    /\ call.pc \in {"idle", "done"}
    /\ cl' = ClientFromLogin(t)
    /\ call' = IdleCall
    /\ UNCHANGED <<nCalls, watchVars, orchVars, configVars, libVars>>

\* doRequest: doRequestWithRetry(method, path, body, true).
DoRequest ==
    /\ cl.made # "none"
    /\ call.pc \in {"idle", "done"}
    /\ nCalls < MaxCalls
    /\ nCalls' = nCalls + 1
    /\ call' = [IdleCall EXCEPT !.pc = "send", !.tok0 = cl.accessToken]
    /\ UNCHANGED <<cl, watchVars, orchVars, configVars, libVars>>

\* doRequestWithRetry from building the request to the status handling: one
\* send with the bearer token of the moment, then the answer.
HttpDo(answer) ==
    /\ call.pc = "send"
    /\ LET k1 == [call EXCEPT !.sends = @ + 1,
                              !.sentWith = Append(@, cl.accessToken),
                              !.answers = Append(@, answer)]
       IN  call' =
             IF answer.err
             THEN [k1 EXCEPT !.pc = "done", !.result = "error"]
             ELSE IF answer.status = StatusUnauthorized
             THEN IF MayRefresh(cl, call)
                  THEN [k1 EXCEPT !.pc = "refresh"]
                  ELSE [k1 EXCEPT !.pc = "done", !.result = "Unauthorized"]
             ELSE [k1 EXCEPT !.pc = "done", !.result = ResultOfStatus(answer.status)]
    /\ UNCHANGED <<cl, nCalls, watchVars, orchVars, configVars, libVars>>

\* The tokenRefresh callback returns.
TokenRefreshReturns(out) ==
    /\ call.pc = "refresh"
    /\ LET k1 == [call EXCEPT !.refreshes = @ + 1,
                              !.refreshOuts = Append(@, out)]
       IN  IF RefreshSucceeded(out)
           THEN /\ cl' = [cl EXCEPT !.accessToken = out.token]
                /\ call' = [k1 EXCEPT !.pc = "send", !.allowRetry = RetryAllowRetry]
           ELSE /\ cl' = cl
                /\ call' = [k1 EXCEPT !.pc = "done", !.result = "Unauthorized"]
    /\ UNCHANGED <<nCalls, watchVars, orchVars, configVars, libVars>>

InitClient ==
    /\ cl = NoClient
    /\ call = IdleCall
    /\ nCalls = 0

NextClient ==
    \/ \E t \in Tokens : CreateStored(t)
    \/ \E t \in Tokens : CreateLogin(t)
    \/ DoRequest
    \/ \E a \in Answers : HttpDo(a)
    \/ \E out \in RefreshOutcomes : TokenRefreshReturns(out)

-----------------------------------------------------------------------------
(* Watch engine: package watcher (the directory-watching Watcher) *)

DebounceMs == 300

\* Files that can change on disk. The first two share a directory.
Paths == {"/w/a.js", "/w/b.js", "/v/c.js"}
Dirs == {"/w", "/v"}

\* filepath.Dir
Dir(path) == IF path \in {"/w/a.js", "/w/b.js"} THEN "/w" ELSE "/v"

\* fsnotify.Op of one event
Ops == {"Write", "Create", "Rename", "Remove", "Chmod"}

\* watcher.New: empty maps, no OS watch.
NewWatcher ==
    [files |-> {}, dirs |-> [d \in Dirs |-> <<>>], os |-> {}]

\* fsnotify Watcher.Remove(name): an error when name is not on the watch
\* list, else the watch is removed.
FsRemoveFails(w, name) == name \notin w.os

\* AddFile without the early return on a failed watcher.Add(dir).
MutAddFile(w, path, osOk) ==
    IF path \in w.files THEN w
    ELSE [files |-> w.files \cup {path},
          dirs  |-> [w.dirs EXCEPT ![Dir(path)] = Append(@, path)],
          os    |-> IF Len(w.dirs[Dir(path)]) = 0 /\ osOk
                    THEN w.os \cup {Dir(path)} ELSE w.os]

\* Watcher.AddFile. osOk: whether watcher.Add(dir) succeeds.
AddFile(w, path, osOk) ==
    IF path \in w.files THEN w
    ELSE IF Len(w.dirs[Dir(path)]) = 0 /\ ~osOk THEN w
    ELSE [files |-> w.files \cup {path},
          dirs  |-> [w.dirs EXCEPT ![Dir(path)] = Append(@, path)],
          os    |-> IF Len(w.dirs[Dir(path)]) = 0
                    THEN w.os \cup {Dir(path)} ELSE w.os]

\* Watcher.RemoveFile
RemoveFile(w, path) ==
    IF path \notin w.files THEN w
    ELSE IF FsRemoveFails(w, path) THEN w
    ELSE [w EXCEPT !.os = @ \ {path}, !.files = @ \ {path}]

\* Watcher.Clear
Clear(w) == [w EXCEPT !.os = @ \ w.files, !.files = {}]

\* The test of run(): Write, Create or Rename.
Qualifies(op) == op \in {"Write", "Create", "Rename"}

MutSuppressed(d, path, t) == path \in DOMAIN d /\ t - d[path] <= DebounceMs

\* handleChange: exists && now.Sub(lastChange) < w.debounceMs
Suppressed(d, path, t) == path \in DOMAIN d /\ t - d[path] < DebounceMs

\* w.debounce[path] = now
Stamp(d, path, t) == [q \in DOMAIN d \cup {path} |-> IF q = path THEN t ELSE d[q]]

MutAfterChange(d, path, t) == Stamp(d, path, t)

\* handleChange's effect on the debounce map: stamped only when the change
\* is not suppressed.
AfterChange(d, path, t) == IF Suppressed(d, path, t) THEN d ELSE Stamp(d, path, t)

WAddFile(path, osOk) ==
    /\ Len(wt.dirs[Dir(path)]) < MaxDirEntries
    /\ wt' = AddFile(wt, path, osOk)
    /\ UNCHANGED <<debounce, now, emits, lastEv, evFlip, clientVars, orchVars, configVars, libVars>>

WRemoveFile(path) ==
    /\ wt' = RemoveFile(wt, path)
    /\ UNCHANGED <<debounce, now, emits, lastEv, evFlip, clientVars, orchVars, configVars, libVars>>

WClear ==
    /\ wt' = Clear(wt)
    /\ UNCHANGED <<debounce, now, emits, lastEv, evFlip, clientVars, orchVars, configVars, libVars>>

\* One iteration of run() on an event the OS delivers: the event's file
\* lies in a directory on the watch list.
FsEvent(name, op) ==
    /\ Dir(name) \in wt.os
    /\ evFlip' = ~evFlip
    /\ LET handled == Qualifies(op) /\ name \in wt.files
           emitted == handled /\ ~Suppressed(debounce, name, now)
       IN  /\ debounce' = IF handled THEN AfterChange(debounce, name, now) ELSE debounce
           /\ emits' = IF emitted THEN Stamp(emits, name, now) ELSE emits
           /\ lastEv' = [name |-> name, handled |-> handled, emitted |-> emitted]
    /\ UNCHANGED <<wt, now, clientVars, orchVars, configVars, libVars>>

Tick ==
    /\ now < MaxTicks * TickMs
    /\ now' = now + TickMs
    /\ UNCHANGED <<wt, debounce, emits, lastEv, evFlip, clientVars, orchVars, configVars, libVars>>

InitWatch ==
    /\ wt = NewWatcher
    /\ debounce = <<>>
    /\ now = 0
    /\ emits = <<>>
    /\ lastEv = [name |-> "", handled |-> FALSE, emitted |-> FALSE]
    /\ evFlip = FALSE

NextWatch ==
    \/ \E p \in Paths, osOk \in BOOLEAN : WAddFile(p, osOk)
    \/ \E p \in Paths : WRemoveFile(p)
    \/ WClear
    \/ \E p \in Paths, op \in Ops : FsEvent(p, op)
    \/ Tick

-----------------------------------------------------------------------------
(* Binding store: package config *)

Envs == {"A", "B"}
Res == {"R1", "R2"}

\* Environment.URL of each configured environment
UrlOf(e) == IF e = "A" THEN "https://a.crm.dynamics.com" ELSE "https://b.crm4.dynamics.com"

\* LocalPath values: the absolute paths the file picker returns, and one
\* relative path as a hand-written document may hold.
LocalPaths == Paths \cup {"b.js"}

\* filepath.Abs, the working directory being /w
Abs(path) == IF path = "b.js" THEN "/w/b.js" ELSE path

\* A version string is held as the list strings.Split(version, ".") gives.
NumStr == <<"0", "1", "2", "3", "4", "5", "6">>

\* strconv.Atoi succeeds
IsNum(str) == \E i \in 1..Len(NumStr) : NumStr[i] = str

\* strconv.Atoi
Atoi(str) == (CHOOSE i \in 1..Len(NumStr) : NumStr[i] = str) - 1

\* strconv.Itoa
Itoa(n) == NumStr[n + 1]

incrementVersion(version) ==
    IF Len(version) # 3 THEN <<"1", "0", "1">>
    ELSE IF ~IsNum(version[3]) THEN <<"1", "0", "1">>
    ELSE [version EXCEPT ![3] = Itoa(Atoi(@) + 1)]

\* The version a bind action writes: "1.0.0"
FirstVersion == <<"1", "0", "0">>

Binding(e, path, r, version, auto) ==
    [env |-> e, path |-> path, res |-> r, ver |-> version, auto |-> auto]

\* Config.GetBindingsForEnvironment
GetBindingsForEnvironment(bs, e) == SelectSeq(bs, LAMBDA b : b.env = e)

\* Index of the first binding with the key, 0 when there is none.
IndexOf(bs, e, r) ==
    IF \E i \in 1..Len(bs) : bs[i].env = e /\ bs[i].res = r
    THEN CHOOSE i \in 1..Len(bs) :
            /\ bs[i].env = e /\ bs[i].res = r
            /\ \A j \in 1..(i - 1) : ~(bs[j].env = e /\ bs[j].res = r)
    ELSE 0

\* Config.GetBinding found something
HasBinding(bs, e, r) == IndexOf(bs, e, r) # 0

\* Config.GetBinding
GetBinding(bs, e, r) == bs[IndexOf(bs, e, r)]

\* Config.AddBinding, the document in memory afterwards
AddBinding(bs, b) ==
    IF HasBinding(bs, b.env, b.res)
    THEN [bs EXCEPT ![IndexOf(bs, b.env, b.res)] = b]
    ELSE Append(bs, b)

\* Config.UpdateBindingVersion, the document in memory afterwards
UpdateBindingVersion(bs, e, r, version) ==
    IF HasBinding(bs, e, r)
    THEN [bs EXCEPT ![IndexOf(bs, e, r)].ver = version]
    ELSE bs

\* Config.UpdateBindingVersion returns an error: no such binding, or the
\* document could not be written.
UpdateBindingVersionFails(bs, e, r, saveOk) == ~HasBinding(bs, e, r) \/ ~saveOk

\* Config.DeleteBinding(environment, resourceId)
DeleteBinding(bs, e, r) == SelectSeq(bs, LAMBDA b : ~(b.env = e /\ b.res = r))

-----------------------------------------------------------------------------
(* Orchestrator: internal/tui/update.go *)

MaxCmds == 1           \* commands and unhandled messages in flight
MaxWatchers == 1       \* Watcher instances made per behaviour
MaxChan == 1           \* change notifications waiting in fileChangeChan
MaxPublishes == 1      \* publish triggers ("p" keys and emitted changes) per behaviour
MaxEdits == 1          \* binding edits (bind, toggle, unbind) per behaviour
MaxReloads == 1        \* Watcher instances made after the first, on the list screen

\* make(chan string, 10)
ChanCap == 10

TokenExpiresAt == 1000 \* expires_at of the tokens the identity provider issues, in seconds

\* Token.IsExpired: 5 * time.Minute, in seconds
ExpiryMarginSec == 300

NoToken == [accessToken |-> EmptyToken, expiresAt |-> 0]

MutIsExpired(t, expiresAt) == t + ExpiryMarginSec >= expiresAt

\* Token.IsExpired at time t: time.Now().Add(5 * time.Minute).After(t.ExpiresAt)
IsExpired(t, expiresAt) == t + ExpiryMarginSec > expiresAt

\* time.Now() when "enter" is pressed: around the moment the stored tokens
\* start to count as expired.
SelectTimes ==
    {TokenExpiresAt - ExpiryMarginSec - 1, TokenExpiresAt - ExpiryMarginSec,
     TokenExpiresAt - ExpiryMarginSec + 1}

\* The Model's client: where it sends, and the d365.Client itself.
NoConn == [url |-> "", c |-> NoClient]

\* The access token the identity provider issues for an environment's URL.
IssuedFor(e) == IF e = "A" THEN 1 ELSE 2

\* The Token of a login into an environment, as SaveToken writes it.
IssuedToken(e) == [accessToken |-> IssuedFor(e), expiresAt |-> TokenExpiresAt]

\* A bag of commands: command -> how many of it are in flight.
RECURSIVE SumOver(_, _)
SumOver(b, S) ==
    IF S = {} THEN 0
    ELSE LET x == CHOOSE y \in S : TRUE IN b[x] + SumOver(b, S \ {x})

BagSize(b) == SumOver(b, DOMAIN b)

BagAdd(b, x) ==
    [y \in DOMAIN b \cup {x} |->
        IF y = x THEN (IF x \in DOMAIN b THEN b[x] + 1 ELSE 1) ELSE b[y]]

BagDel(b, x) ==
    IF b[x] > 1 THEN [b EXCEPT ![x] = @ - 1]
    ELSE [y \in DOMAIN b \ {x} |-> b[y]]

\* A tea.Cmd in flight. kind: which command; pc: where its goroutine is
\* ("msg": it has returned a message the loop has not handled yet); the
\* other fields are what its closure captured and what it has done. stale
\* and from are history: whether the change notification behind the command
\* is older than a Clear, and the environment current when it was emitted.
Cmd(kind) ==
    [kind |-> kind, pc |-> "start", client |-> NoConn, env |-> "", res |-> "",
     path |-> "", ver |-> <<>>, rs |-> {}, w |-> 0, out |-> "", log |-> <<>>,
     reads |-> 0, err |-> "",
     lost |-> FALSE, stale |-> FALSE, from |-> ""]

\* Update hands every message to handleFilePicker while the file picker is
\* shown; a message that is no key is then handled by nobody.
Dropped == state = "FilePicker"

\* Model.setupWatchers, the command body: a new Watcher with every
\* autoPublish binding of the current environment added.
RECURSIVE AddAll(_, _)
AddAll(w, bs) ==
    IF bs = <<>> THEN w
    ELSE AddAll(IF Head(bs).auto THEN AddFile(w, Abs(Head(bs).path), TRUE) ELSE w,
                Tail(bs))

\* Update, fileChangeMsg: the resource marked as publishing, if any: that of
\* the first binding of the current environment with the path and
\* autoPublish.
MarkedBy(bs, e, path) ==
    LET own == GetBindingsForEnvironment(bs, e)
        hit == {i \in 1..Len(own) : Abs(own[i].path) = path /\ own[i].auto}
    IN  IF hit = {} THEN {}
        ELSE {own[CHOOSE i \in hit : \A j \in hit : i <= j].res}

\* Model.handleFileChange, the search: the first binding of the current
\* environment with the path and autoPublish whose resource is in the
\* captured resource list; 0 when there is none.
AutoTarget(bs, e, path, rs) ==
    LET own == GetBindingsForEnvironment(bs, e)
        hit == {i \in 1..Len(own) :
                   Abs(own[i].path) = path /\ own[i].auto /\ own[i].res \in rs}
    IN  IF hit = {} THEN 0 ELSE CHOOSE i \in hit : \A j \in hit : i <= j

\* Paths the file picker can return.
PickPaths == {"/w/a.js", "/w/b.js"}

\* Resource lists ListWebResources can answer with.
ResourceLists == {Res, {"R1"}}

InFlight(c) == c \in DOMAIN cmds

\* tea.Cmd returned by a handler: one more command in flight.
Dispatch(c) == cmds' = BagAdd(cmds, c)

\* A command ends, or its message is handled, and the handler returns next.
Replace(c, next) == cmds' = BagAdd(BagDel(cmds, c), next)

Done(c) == cmds' = BagDel(cmds, c)

fetchResources(conn) == [Cmd("fetch") EXCEPT !.client = conn]

authenticateInteractive == Cmd("auth")

setupWatchers == Cmd("setup")

publishResource(conn, r) == [Cmd("manual") EXCEPT !.client = conn, !.res = r]

handleFileChange(conn, note, rs) ==
    [Cmd("auto") EXCEPT !.client = conn, !.path = note.path, !.rs = rs,
                        !.stale = note.stale, !.from = note.from]

\* handleEnvSelectKey, "enter" at time t: the screen, the client and the
\* command. LoadToken fails when the environment has no token file.
SelectScreenWithin(e, t, max) ==
    /\ state = "EnvSelect"
    /\ BagSize(cmds) < max
    /\ cur' = e
    /\ IF store[e] # NoToken /\ ~IsExpired(t, store[e].expiresAt)
       THEN /\ mClient' = [url |-> UrlOf(e), c |-> ClientFromStoredToken(store[e].accessToken)]
            /\ state' = "List"
            /\ Dispatch(fetchResources(mClient'))
       ELSE /\ state' = "Auth"
            /\ Dispatch(authenticateInteractive)
            /\ UNCHANGED mClient
    /\ UNCHANGED <<bindings, store, resources, bindingResource, mWatcher, watchers,
                   chan, waiters, publishing, nPub, nEdits>>

SelectScreen(e, t) == SelectScreenWithin(e, t, MaxCmds)

\* handleEnvSelectKey, "enter", seen from the orchestrator.
SelectEnvironment(e, t) ==
    /\ SelectScreen(e, t)
    /\ UNCHANGED <<clientVars, watchVars, configVars, libVars>>

\* handleAuthKey, "esc"
AuthEsc ==
    /\ state = "Auth"
    /\ state' = "EnvSelect"
    /\ UNCHANGED <<cur, bindings, store, mClient, resources, bindingResource, mWatcher,
                   watchers, chan, waiters, publishing, cmds, nPub, nEdits, clientVars, watchVars, configVars, libVars>>

\* authenticateInteractive, the command body: the environment is read from
\* the shared config when the command runs.
AuthRun(c, ok) ==
    /\ InFlight(c) /\ c.kind = "auth" /\ c.pc = "start"
    /\ cur \in Envs
    /\ Replace(c, [c EXCEPT !.pc = "msg", !.env = cur,
                            !.out = IF ok THEN "tokenMsg" ELSE "errMsg",
                            !.err = IF ok THEN "" ELSE "login"])
    /\ UNCHANGED <<state, cur, bindings, store, mClient, resources, bindingResource,
                   mWatcher, watchers, chan, waiters, publishing, nPub, nEdits, clientVars, watchVars, configVars, libVars>>

\* Update, tokenMsg
TokenMsg(c) ==
    /\ InFlight(c) /\ c.kind = "auth" /\ c.pc = "msg" /\ c.out = "tokenMsg"
    /\ IF Dropped
       THEN /\ Done(c)
            /\ UNCHANGED <<state, store, mClient>>
       ELSE /\ store' = [store EXCEPT ![cur] = IssuedToken(c.env)]
            /\ mClient' = [url |-> UrlOf(cur), c |-> ClientFromLogin(IssuedFor(c.env))]
            /\ state' = "List"
            /\ Replace(c, fetchResources(mClient'))
    /\ UNCHANGED <<cur, bindings, resources, bindingResource, mWatcher, watchers, chan,
                   waiters, publishing, nPub, nEdits, clientVars, watchVars, configVars, libVars>>

\* Update, errMsg: only the status line changes.
ErrMsg(c) ==
    /\ InFlight(c) /\ c.pc = "msg" /\ c.out = "errMsg"
    /\ Done(c)
    /\ UNCHANGED <<state, cur, bindings, store, mClient, resources, bindingResource,
                   mWatcher, watchers, chan, waiters, publishing, nPub, nEdits, clientVars, watchVars, configVars, libVars>>

\* The errors ListWebResources returns: ErrUnauthorized once refresh and
\* retry are over, or another error of the request primitive.
RemoteErrors == {"Unauthorized", "APIError"}

\* fetchResources, the command body, when the listing fails: errMsg(err),
\* "not connected" when the Model has no client.
FetchFails(c, err) ==
    /\ InFlight(c) /\ c.kind = "fetch" /\ c.pc = "start"
    /\ err \in IF c.client = NoConn THEN {"notConnected"} ELSE RemoteErrors
    /\ Replace(c, [c EXCEPT !.pc = "msg", !.out = "errMsg", !.err = err])
    /\ UNCHANGED <<state, cur, bindings, store, mClient, resources, bindingResource,
                   mWatcher, watchers, chan, waiters, publishing, nPub, nEdits, clientVars, watchVars, configVars, libVars>>

\* fetchResources answers rs, and Update handles the resourcesMsg.
ResourcesMsg(c, rs) ==
    /\ InFlight(c) /\ c.kind = "fetch" /\ c.pc = "start"
    /\ c.client # NoConn
    /\ IF Dropped
       THEN Done(c) /\ UNCHANGED resources
       ELSE resources' = rs /\ Replace(c, setupWatchers)
    /\ UNCHANGED <<state, cur, bindings, store, mClient, bindingResource, mWatcher,
                   watchers, chan, waiters, publishing, nPub, nEdits, clientVars, watchVars, configVars, libVars>>

\* setupWatchers, the command body: watcher.New, then AddFile for the
\* bindings the shared config holds when the command runs.
SetupRunWithin(c, max) ==
    /\ InFlight(c) /\ c.kind = "setup" /\ c.pc = "start"
    /\ Len(watchers) < max
    /\ watchers' = Append(watchers,
                          AddAll(NewWatcher, GetBindingsForEnvironment(bindings, cur)))
    /\ Replace(c, [c EXCEPT !.pc = "msg", !.w = Len(watchers) + 1,
                            !.out = "watcherReadyMsg"])
    /\ UNCHANGED <<state, cur, bindings, store, mClient, resources, bindingResource,
                   mWatcher, chan, waiters, publishing, nPub, nEdits, clientVars, watchVars, configVars, libVars>>

SetupRun(c) == SetupRunWithin(c, MaxWatchers)

\* setupWatchers when watcher.New fails.
SetupFails(c) ==
    /\ InFlight(c) /\ c.kind = "setup" /\ c.pc = "start"
    /\ Replace(c, [c EXCEPT !.pc = "msg", !.out = "errMsg"])
    /\ UNCHANGED <<state, cur, bindings, store, mClient, resources, bindingResource,
                   mWatcher, watchers, chan, waiters, publishing, nPub, nEdits, clientVars, watchVars, configVars, libVars>>

\* Update, watcherReadyMsg: the watcher is installed (the one before is
\* neither closed nor cleared) and one more waitForFileChange is started.
WatcherReadyMsg(c) ==
    /\ InFlight(c) /\ c.kind = "setup" /\ c.pc = "msg" /\ c.out = "watcherReadyMsg"
    /\ Done(c)
    /\ IF Dropped
       THEN UNCHANGED <<mWatcher, waiters>>
       ELSE mWatcher' = c.w /\ waiters' = waiters + 1
    /\ UNCHANGED <<state, cur, bindings, store, mClient, resources, bindingResource,
                   watchers, chan, publishing, nPub, nEdits, clientVars, watchVars, configVars, libVars>>

\* handleListKey, "esc". Entries still in fileChangeChan stay there; they
\* are marked as older than the clear.
ListEsc ==
    /\ state = "List"
    /\ watchers' = IF mWatcher # 0
                   THEN [watchers EXCEPT ![mWatcher] = Clear(@)] ELSE watchers
    /\ state' = "EnvSelect"
    /\ resources' = {}
    /\ chan' = [i \in DOMAIN chan |-> [chan[i] EXCEPT !.stale = TRUE]]
    /\ UNCHANGED <<cur, bindings, store, mClient, bindingResource, mWatcher, waiters,
                   publishing, cmds, nPub, nEdits, clientVars, watchVars, configVars, libVars>>

\* handleListKey, "r"
KeyRefresh ==
    /\ state = "List"
    /\ BagSize(cmds) < MaxCmds
    /\ Dispatch(fetchResources(mClient))
    /\ UNCHANGED <<state, cur, bindings, store, mClient, resources, bindingResource,
                   mWatcher, watchers, chan, waiters, publishing, nPub, nEdits, clientVars, watchVars, configVars, libVars>>

\* handleListKey, "l"
KeyReauth ==
    /\ state = "List"
    /\ BagSize(cmds) < MaxCmds
    /\ state' = "Auth"
    /\ Dispatch(authenticateInteractive)
    /\ UNCHANGED <<cur, bindings, store, mClient, resources, bindingResource, mWatcher,
                   watchers, chan, waiters, publishing, nPub, nEdits, clientVars, watchVars, configVars, libVars>>

\* handleListKey, "b" on a listed resource
KeyBind(r) ==
    /\ state = "List"
    /\ r \in resources
    /\ bindingResource' = r
    /\ state' = "FilePicker"
    /\ UNCHANGED <<cur, bindings, store, mClient, resources, mWatcher, watchers, chan,
                   waiters, publishing, cmds, nPub, nEdits, clientVars, watchVars, configVars, libVars>>

\* handleFilePicker, "esc"
FilePickerEsc ==
    /\ state = "FilePicker"
    /\ state' = "List"
    /\ bindingResource' = ""
    /\ UNCHANGED <<cur, bindings, store, mClient, resources, mWatcher, watchers, chan,
                   waiters, publishing, cmds, nPub, nEdits, clientVars, watchVars, configVars, libVars>>

\* handleFilePicker, a file was selected. saveOk: whether AddBinding could
\* write the document (the binding is in memory either way).
FilePickerSelect(path, saveOk) ==
    /\ state = "FilePicker"
    /\ nEdits < MaxEdits
    /\ nEdits' = nEdits + 1
    /\ bindingResource # ""
    /\ bindings' = AddBinding(bindings,
                              Binding(cur, path, bindingResource, FirstVersion, TRUE))
    /\ watchers' = IF saveOk /\ mWatcher # 0
                   THEN [watchers EXCEPT ![mWatcher] = AddFile(@, path, TRUE)]
                   ELSE watchers
    /\ state' = "List"
    /\ bindingResource' = ""
    /\ UNCHANGED <<cur, store, mClient, resources, mWatcher, chan, waiters, publishing,
                   cmds, nPub, clientVars, watchVars, configVars, libVars>>

\* handleListKey, "a" on a bound resource of the current environment: the
\* binding is rewritten; the watcher is not told.
KeyToggleAuto(r) ==
    /\ state = "List"
    /\ nEdits < MaxEdits
    /\ nEdits' = nEdits + 1
    /\ HasBinding(bindings, cur, r)
    /\ bindings' = AddBinding(bindings,
                              [GetBinding(bindings, cur, r) EXCEPT !.auto = ~@])
    /\ UNCHANGED <<state, cur, store, mClient, resources, bindingResource, mWatcher,
                   watchers, chan, waiters, publishing, cmds, nPub, clientVars, watchVars, configVars, libVars>>

\* handleListKey, "u" on a bound resource of the current environment
KeyUnbind(r) ==
    /\ state = "List"
    /\ nEdits < MaxEdits
    /\ nEdits' = nEdits + 1
    /\ HasBinding(bindings, cur, r)
    /\ LET b == GetBinding(bindings, cur, r)
       IN  watchers' = IF mWatcher # 0 /\ b.auto
                       THEN [watchers EXCEPT ![mWatcher] = RemoveFile(@, Abs(b.path))]
                       ELSE watchers
    /\ bindings' = DeleteBinding(bindings, cur, r)
    /\ UNCHANGED <<state, cur, store, mClient, resources, bindingResource, mWatcher,
                   chan, waiters, publishing, cmds, nPub, clientVars, watchVars, configVars, libVars>>

\* handleListKey, "p" on a listed resource: the marker is set, then the
\* command is returned.
KeyPublish(r) ==
    /\ state = "List"
    /\ r \in resources
    /\ BagSize(cmds) < MaxCmds
    /\ nPub < MaxPublishes
    /\ nPub' = nPub + 1
    /\ publishing' = publishing \cup {r}
    /\ Dispatch(publishResource(mClient, r))
    /\ UNCHANGED <<state, cur, bindings, store, mClient, resources, bindingResource,
                   mWatcher, watchers, chan, waiters, nEdits, clientVars, watchVars, configVars, libVars>>

\* The callback of watcher i, called by handleChange for a change of a
\* tracked file that passed the debounce: a non-blocking send.
FsEmit(i, path) ==
    /\ i \in 1..Len(watchers)
    /\ path \in watchers[i].files
    /\ Dir(path) \in watchers[i].os
    /\ Len(chan) < MaxChan
    /\ nPub < MaxPublishes
    /\ nPub' = nPub + 1
    /\ chan' = IF Len(chan) < ChanCap
               THEN Append(chan, [path |-> path, stale |-> FALSE, from |-> cur])
               ELSE chan
    /\ UNCHANGED <<state, cur, bindings, store, mClient, resources, bindingResource,
                   mWatcher, watchers, waiters, publishing, cmds, nEdits, clientVars, watchVars, configVars, libVars>>

\* waitForFileChange receives, and Update handles the fileChangeMsg.
FileChangeMsg ==
    /\ waiters > 0
    /\ chan # <<>>
    /\ BagSize(cmds) < MaxCmds
    /\ chan' = Tail(chan)
    /\ IF Dropped
       THEN /\ waiters' = waiters - 1
            /\ UNCHANGED <<publishing, cmds>>
       ELSE /\ publishing' = publishing \cup MarkedBy(bindings, cur, Head(chan).path)
            /\ Dispatch(handleFileChange(mClient, Head(chan), resources))
            /\ UNCHANGED waiters
    /\ UNCHANGED <<state, cur, bindings, store, mClient, resources, bindingResource,
                   mWatcher, watchers, nPub, nEdits, clientVars, watchVars, configVars, libVars>>

Step(name, ok) == [step |-> name, ok |-> ok]

MutPublishSteps(readOk, updOk, pubOk) ==
    IF ~readOk THEN <<Step("read", FALSE)>>
    ELSE IF ~updOk THEN <<Step("read", TRUE), Step("update", FALSE)>>
    ELSE <<Step("read", TRUE), Step("update", TRUE), Step("publish", pubOk),
           Step("bump", TRUE)>>

\* publishResource and handleFileChange from the file read on: the steps
\* taken, in order, each with whether it succeeded. A failed step returns.
PublishSteps(readOk, updOk, pubOk) ==
    IF ~readOk THEN <<Step("read", FALSE)>>
    ELSE IF ~updOk THEN <<Step("read", TRUE), Step("update", FALSE)>>
    ELSE IF ~pubOk
         THEN <<Step("read", TRUE), Step("update", TRUE), Step("publish", FALSE)>>
    ELSE <<Step("read", TRUE), Step("update", TRUE), Step("publish", TRUE),
           Step("bump", TRUE)>>

Took(log, name) == \E i \in 1..Len(log) : log[i].step = name

\* The number of os.ReadFile calls a publish command is prepared to make:
\* handleFileChange loops, publishResource calls it once.
ReadAttempts == 5

AttemptsOf(kind) == IF kind = "auto" THEN ReadAttempts ELSE 1

\* The file becomes readable at the readable-th call of os.ReadFile: at the
\* first, at the last the loop makes, or not within ReadAttempts calls.
ReadableAt == {1, ReadAttempts, ReadAttempts + 1}

\* The read of the local file: whether it got the content, and the number
\* of os.ReadFile calls made.
ReadFile(kind, readable) ==
    [ok |-> readable <= AttemptsOf(kind),
     reads |-> IF readable <= AttemptsOf(kind) THEN readable ELSE AttemptsOf(kind)]

\* publishResource, the command body up to the binding lookup.
ManualStart(c) ==
    /\ InFlight(c) /\ c.kind = "manual" /\ c.pc = "start"
    /\ IF ~HasBinding(bindings, cur, c.res)
       THEN Replace(c, [c EXCEPT !.pc = "msg", !.out = "errMsg"])
       ELSE LET b == GetBinding(bindings, cur, c.res)
            IN  Replace(c, [c EXCEPT !.pc = "run", !.env = cur, !.path = b.path,
                                     !.ver = b.ver])
    /\ UNCHANGED <<state, cur, bindings, store, mClient, resources, bindingResource,
                   mWatcher, watchers, chan, waiters, publishing, nPub, nEdits, clientVars, watchVars, configVars, libVars>>

\* handleFileChange, the command body up to the binding and resource search;
\* it returns nil when the search finds nothing.
AutoStart(c) ==
    /\ InFlight(c) /\ c.kind = "auto" /\ c.pc = "start"
    /\ LET i == AutoTarget(bindings, cur, c.path, c.rs)
           b == GetBindingsForEnvironment(bindings, cur)[i]
       IN  IF i = 0
           THEN Done(c)
           ELSE Replace(c, [c EXCEPT !.pc = "run", !.env = cur, !.res = b.res,
                                     !.path = b.path, !.ver = b.ver])
    /\ UNCHANGED <<state, cur, bindings, store, mClient, resources, bindingResource,
                   mWatcher, watchers, chan, waiters, publishing, nPub, nEdits, clientVars, watchVars, configVars, libVars>>

\* binding.LastKnownVersion as the version bump reads it. publishResource
\* holds a pointer into the binding list, which other handlers rewrite
\* meanwhile: it reads what the lookup saw or what the list holds now.
\* handleFileChange holds a copy.
VersionsRead(c) ==
    IF c.kind = "manual" /\ HasBinding(bindings, c.env, c.res)
    THEN {c.ver, GetBinding(bindings, c.env, c.res).ver}
    ELSE {c.ver}

\* publishResource and handleFileChange, from the file read to the result
\* message. The version is written under the environment current now; the
\* error of UpdateBindingVersion is not looked at.
PublishRun(c, readable, updOk, pubOk, saveOk, version) ==
    /\ InFlight(c) /\ c.kind \in {"manual", "auto"} /\ c.pc = "run"
    /\ version \in VersionsRead(c)
    /\ LET read == ReadFile(c.kind, readable)
           steps == PublishSteps(read.ok, updOk, pubOk)
           bump == Took(steps, "bump")
       IN  /\ bindings' = IF bump
                          THEN UpdateBindingVersion(bindings, cur, c.res,
                                                    incrementVersion(version))
                          ELSE bindings
           /\ Replace(c, [c EXCEPT
                  !.pc = "msg", !.log = steps, !.reads = read.reads,
                  !.out = IF bump THEN "success" ELSE "failure",
                  !.lost = bump /\ UpdateBindingVersionFails(bindings, cur, c.res, saveOk)])
    /\ UNCHANGED <<state, cur, store, mClient, resources, bindingResource, mWatcher,
                   watchers, chan, waiters, publishing, nPub, nEdits, clientVars, watchVars, configVars, libVars>>

\* Update, publishResultMsg
PublishResultMsg(c) ==
    /\ InFlight(c) /\ c.pc = "msg" /\ c.out \in {"success", "failure"}
    /\ Done(c)
    /\ publishing' = IF ~Dropped /\ c.res # "" THEN publishing \ {c.res} ELSE publishing
    /\ UNCHANGED <<state, cur, bindings, store, mClient, resources, bindingResource,
                   mWatcher, watchers, chan, waiters, nPub, nEdits, clientVars, watchVars, configVars, libVars>>

EmptyBag == [c \in {} |-> 0]

\* The config document the program is started with: two environments, the
\* same file bound in both (once by a relative path).
InitBindings ==
    <<Binding("A", "/w/b.js", "R1", FirstVersion, TRUE),
      Binding("B", "b.js", "R1", FirstVersion, TRUE)>>

\* The token files the program is started with: one, for environment A.
InitStore ==
    [e \in Envs |-> IF e = "A" THEN IssuedToken("A") ELSE NoToken]

\* NewModel
InitOrch ==
    /\ state = "EnvSelect"
    /\ cur = ""
    /\ bindings = InitBindings
    /\ store = InitStore
    /\ mClient = NoConn
    /\ resources = {}
    /\ bindingResource = ""
    /\ mWatcher = 0
    /\ watchers = <<>>
    /\ chan = <<>>
    /\ waiters = 0
    /\ publishing = {}
    /\ cmds = EmptyBag
    /\ nPub = 0
    /\ nEdits = 0

\* The list screen of environment A as the program first shows it: "enter"
\* on A with its stored token, the resources listed, the watcher installed
\* and waitForFileChange started.
ListSession ==
    /\ state = "List"
    /\ cur = "A"
    /\ bindings = InitBindings
    /\ store = InitStore
    /\ mClient = [url |-> UrlOf("A"), c |-> ClientFromStoredToken(IssuedFor("A"))]
    /\ resources = Res
    /\ bindingResource = ""
    /\ mWatcher = 1
    /\ watchers = <<AddAll(NewWatcher, GetBindingsForEnvironment(InitBindings, "A"))>>
    /\ chan = <<>>
    /\ waiters = 1
    /\ publishing = {}
    /\ cmds = EmptyBag
    /\ nPub = 0
    /\ nEdits = 0

NextOrch ==
    \/ \E e \in Envs, t \in SelectTimes : SelectEnvironment(e, t)
    \/ AuthEsc
    \/ \E c \in DOMAIN cmds, ok \in BOOLEAN : AuthRun(c, ok)
    \/ \E c \in DOMAIN cmds : TokenMsg(c)
    \/ \E c \in DOMAIN cmds : ErrMsg(c)
    \/ \E c \in DOMAIN cmds, err \in RemoteErrors \cup {"notConnected"} : FetchFails(c, err)
    \/ \E c \in DOMAIN cmds, rs \in ResourceLists : ResourcesMsg(c, rs)
    \/ \E c \in DOMAIN cmds : SetupRun(c)
    \/ \E c \in DOMAIN cmds : SetupFails(c)
    \/ \E c \in DOMAIN cmds : WatcherReadyMsg(c)
    \/ ListEsc
    \/ KeyRefresh
    \/ KeyReauth
    \/ \E r \in Res : KeyBind(r)
    \/ FilePickerEsc
    \/ \E path \in PickPaths, saveOk \in BOOLEAN : FilePickerSelect(path, saveOk)
    \/ \E r \in Res : KeyToggleAuto(r)
    \/ \E r \in Res : KeyUnbind(r)
    \/ \E r \in Res : KeyPublish(r)
    \/ \E i \in 1..MaxWatchers, path \in Paths : FsEmit(i, path)
    \/ FileChangeMsg
    \/ \E c \in DOMAIN cmds : ManualStart(c)
    \/ \E c \in DOMAIN cmds : AutoStart(c)
    \/ \E c \in DOMAIN cmds, readable \in ReadableAt, updOk, pubOk, saveOk \in BOOLEAN :
          \E version \in VersionsRead(c) : PublishRun(c, readable, updOk, pubOk, saveOk, version)
    \/ \E c \in DOMAIN cmds : PublishResultMsg(c)

\* What happens on the list screen of one environment: binding edits,
\* publishes by key and by file change, and their messages.
NextPublish ==
    \/ \E c \in DOMAIN cmds : ErrMsg(c)
    \/ \E r \in Res : KeyBind(r)
    \/ FilePickerEsc
    \/ \E path \in PickPaths, saveOk \in BOOLEAN : FilePickerSelect(path, saveOk)
    \/ \E r \in Res : KeyToggleAuto(r)
    \/ \E r \in Res : KeyUnbind(r)
    \/ \E r \in Res : KeyPublish(r)
    \/ \E i \in 1..MaxWatchers, path \in Paths : FsEmit(i, path)
    \/ FileChangeMsg
    \/ \E c \in DOMAIN cmds : ManualStart(c)
    \/ \E c \in DOMAIN cmds : AutoStart(c)
    \/ \E c \in DOMAIN cmds, readable \in ReadableAt, updOk, pubOk, saveOk \in BOOLEAN :
          \E version \in VersionsRead(c) : PublishRun(c, readable, updOk, pubOk, saveOk, version)
    \/ \E c \in DOMAIN cmds : PublishResultMsg(c)

-----------------------------------------------------------------------------
(* Configuration document: internal/d365/solutions.go (package config),    *)
(* the token files of package auth, and the handlers of the environment    *)
(* screen that call them.                                                  *)

\* Names and URLs are sequences of characters.  A URL is written with its
\* fixed substrings as one element each: "https://", ".crm", ".dynamics.com".
Space == " "

\* strings.TrimSpace
RECURSIVE TrimLeft(_)
TrimLeft(s) ==
    IF s # <<>> /\ Head(s) = Space THEN TrimLeft(Tail(s)) ELSE s

RECURSIVE TrimRight(_)
TrimRight(s) ==
    IF s # <<>> /\ s[Len(s)] = Space THEN TrimRight(SubSeq(s, 1, Len(s) - 1)) ELSE s

TrimSpace(s) == TrimRight(TrimLeft(s))

\* Characters of the class [a-zA-Z0-9-] and of the class [0-9].
OrgChars == {"o", "4", "-"}
DigitChars == {"4"}

\* Number of consecutive elements of s from position i on that are in cls.
RECURSIVE Span(_, _, _)
Span(s, i, cls) ==
    IF i <= Len(s) /\ s[i] \in cls THEN 1 + Span(s, i + 1, cls) ELSE 0

\* ValidateEnvironmentURL: TRUE when it returns nil.
ValidateEnvironmentURL(url) ==
    /\ url # <<>>
    /\ Head(url) = "https://"
    /\ LET org == Span(url, 2, OrgChars)
           crm == 2 + org
           dig == Span(url, crm + 1, DigitChars)
           dom == crm + 1 + dig
       IN /\ org >= 1
          /\ crm <= Len(url)
          /\ url[crm] = ".crm"
          /\ dom = Len(url)
          /\ url[dom] = ".dynamics.com"

Environment(name, url) == [name |-> name, url |-> url]

NoName == <<>>

EnvNames(c) == {c.envs[i].name : i \in DOMAIN c.envs}

\* GetEnvironment(name) # nil
HasEnvironment(c, name) == name \in EnvNames(c)

\* The loop over c.Environments that rejects a name already in use.
MutNameTaken(c, name) == FALSE

NameTaken(c, name) == \E i \in DOMAIN c.envs : c.envs[i].name = name

\* The error AddEnvironment returns before it changes anything, "" for none.
AddEnvironmentErr(c, name, url) ==
    IF TrimSpace(name) = NoName THEN "empty"
    ELSE IF NameTaken(c, TrimSpace(name)) THEN "exists"
    ELSE IF ~ValidateEnvironmentURL(TrimSpace(url)) THEN "url"
    ELSE ""

MutAddEnvironment(c, name, url) ==
    IF TrimSpace(name) = NoName \/ NameTaken(c, TrimSpace(name)) THEN c
    ELSE [c EXCEPT !.envs = Append(@, Environment(TrimSpace(name), TrimSpace(url)))]

\* The document after AddEnvironment.
AddEnvironment(c, name, url) ==
    IF AddEnvironmentErr(c, name, url) # "" THEN c
    ELSE [c EXCEPT !.envs = Append(@, Environment(TrimSpace(name), TrimSpace(url)))]

\* The error UpdateEnvironment returns before it changes anything.
UpdateEnvironmentErr(c, oldName, newName, newURL) ==
    IF TrimSpace(newName) = NoName THEN "empty"
    ELSE IF ~ValidateEnvironmentURL(TrimSpace(newURL)) THEN "url"
    ELSE IF oldName # TrimSpace(newName) /\ NameTaken(c, TrimSpace(newName)) THEN "exists"
    ELSE IF ~HasEnvironment(c, oldName) THEN "notfound"
    ELSE ""

\* Index of the first environment named name.
EnvIndex(c, name) ==
    CHOOSE i \in DOMAIN c.envs :
        /\ c.envs[i].name = name
        /\ \A j \in 1..(i - 1) : c.envs[j].name # name

\* The cascade of a rename onto c.CurrentEnvironment.
MutCascadeCurrent(current, oldName, newName) == current

CascadeCurrent(current, oldName, newName) ==
    IF current = oldName THEN newName ELSE current

\* The cascade of a rename onto c.Bindings.
CascadeBindings(bs, oldName, newName) ==
    [j \in DOMAIN bs |-> IF bs[j].env = oldName THEN [bs[j] EXCEPT !.env = newName]
                         ELSE bs[j]]

MutUpdateEnvironment(c, oldName, newName, newURL) ==
    IF UpdateEnvironmentErr(c, oldName, newName, newURL) # "" THEN c
    ELSE [c EXCEPT !.envs[EnvIndex(c, oldName)] =
                       Environment(TrimSpace(newName), TrimSpace(newURL)),
                   !.cur = CascadeCurrent(@, oldName, TrimSpace(newName))]

\* The document after UpdateEnvironment.
UpdateEnvironment(c, oldName, newName, newURL) ==
    IF UpdateEnvironmentErr(c, oldName, newName, newURL) # "" THEN c
    ELSE [c EXCEPT !.envs[EnvIndex(c, oldName)] =
                       Environment(TrimSpace(newName), TrimSpace(newURL)),
                   !.bindings = CascadeBindings(@, oldName, TrimSpace(newName)),
                   !.cur = CascadeCurrent(@, oldName, TrimSpace(newName))]

DeleteEnvironmentErr(c, name) ==
    IF \E i \in DOMAIN c.envs : c.envs[i].name = name THEN "" ELSE "notfound"

MutDeleteEnvironment(c, name) ==
    IF DeleteEnvironmentErr(c, name) # "" THEN c
    ELSE [c EXCEPT !.envs = SelectSeq(@, LAMBDA env : env.name # name),
                   !.cur = IF @ = name THEN NoName ELSE @]

\* The document after DeleteEnvironment.
DeleteEnvironment(c, name) ==
    IF DeleteEnvironmentErr(c, name) # "" THEN c
    ELSE [c EXCEPT !.envs = SelectSeq(@, LAMBDA env : env.name # name),
                   !.bindings = SelectSeq(@, LAMBDA b : b.env # name),
                   !.cur = IF @ = name THEN NoName ELSE @]

\* Save: what is on disk after a call that ended with error err in memory.
Save(c, saveOk, old) == IF saveOk THEN c ELSE old

\* tokenFilePath: the file name of an environment's token.
tokenFilePath(envName) ==
    [i \in DOMAIN envName |-> IF envName[i] \in {"/", "\\"} THEN "_" ELSE envName[i]]

\* os.WriteFile(path, data, 0600)
WriteFile(files, path, data) ==
    [p \in DOMAIN files \cup {path} |-> IF p = path THEN data ELSE files[p]]

\* os.Remove(path)
Remove(files, path) == [p \in DOMAIN files \ {path} |-> files[p]]

\* The Token AcquireTokenInteractive(orgURL) returns.
TokenFor(url) == [issuedFor |-> url]

\* SaveToken, DeleteToken on the token files present.
SaveToken(files, envName, token, writeOk) ==
    IF writeOk THEN WriteFile(files, tokenFilePath(envName), token) ELSE files

DeleteToken(files, envName, removeOk) ==
    IF removeOk THEN Remove(files, tokenFilePath(envName)) ELSE files

\* DeleteToken's error: os.Remove failed on a file that exists.
DeleteTokenErr(files, envName, removeOk) ==
    IF ~removeOk /\ tokenFilePath(envName) \in DOMAIN files THEN "remove" ELSE ""

\* Config.GetEnvironment(name)
GetEnvironment(c, name) == c.envs[EnvIndex(c, name)]

\* ---- inputs ----
GoodUrl == <<"https://", "o", ".crm", ".dynamics.com">>
PaddedUrl == <<Space, "https://", "o", "-", ".crm", "4", ".dynamics.com", Space>>
UrlInputs ==
    {GoodUrl, PaddedUrl,
     <<"http://", "o", ".crm", ".dynamics.com">>,
     <<"https://", ".crm", ".dynamics.com">>,
     <<"https://", "o", ".crm", ".dynamics.com", "/">>}

EnvA == <<"A">>
EnvB == <<"B">>
EnvX == <<"X">>
CfgNames == {EnvA, EnvB, EnvX}
NameInputs == CfgNames \cup {<<Space>>, <<Space, "X", Space>>}

CfgPaths == {"/w/a.js", "/w/b.js"}
NextVersion == <<"1", "0", "1">>

NoOp ==
    [op |-> "", name |-> NoName, newName |-> NoName, url |-> <<>>, res |-> "",
     err |-> "", pre |-> [cur |-> NoName, envs |-> <<>>, bindings |-> <<>>],
     preDisk |-> [cur |-> NoName, envs |-> <<>>, bindings |-> <<>>], preFiles |-> <<>>]

\* The record kept of one call: its arguments, its error, and the document
\* in memory, on disk and the token files as they were before it.
Op(op, name, newName, url, res, err) ==
    [op |-> op, name |-> name, newName |-> newName, url |-> url, res |-> res,
     err |-> err, pre |-> doc, preDisk |-> disk, preFiles |-> tokenFiles]

ErrOf(err, saveOk) == IF err # "" THEN err ELSE IF saveOk THEN "" ELSE "save"

Written(c, err, saveOk) == IF err = "" THEN Save(c, saveOk, disk) ELSE disk

CfgAddEnvironment(name, url, saveOk) ==
    /\ nOps < MaxOps
    /\ nOps' = nOps + 1
    /\ doc' = AddEnvironment(doc, name, url)
    /\ disk' = Written(doc', AddEnvironmentErr(doc, name, url), saveOk)
    /\ cfgOp' = Op("add", name, NoName, url, "", ErrOf(AddEnvironmentErr(doc, name, url), saveOk))
    /\ UNCHANGED <<tokenFiles, clientVars, watchVars, orchVars, libVars>>

CfgUpdateEnvironment(oldName, newName, newURL, saveOk) ==
    /\ nOps < MaxOps
    /\ nOps' = nOps + 1
    /\ doc' = UpdateEnvironment(doc, oldName, newName, newURL)
    /\ disk' = Written(doc', UpdateEnvironmentErr(doc, oldName, newName, newURL), saveOk)
    /\ cfgOp' = Op("update", oldName, newName, newURL, "",
                   ErrOf(UpdateEnvironmentErr(doc, oldName, newName, newURL), saveOk))
    /\ UNCHANGED <<tokenFiles, clientVars, watchVars, orchVars, libVars>>

CfgDeleteEnvironment(name, saveOk) ==
    /\ nOps < MaxOps
    /\ nOps' = nOps + 1
    /\ doc' = DeleteEnvironment(doc, name)
    /\ disk' = Written(doc', DeleteEnvironmentErr(doc, name), saveOk)
    /\ cfgOp' = Op("delete", name, NoName, <<>>, "", ErrOf(DeleteEnvironmentErr(doc, name), saveOk))
    /\ UNCHANGED <<tokenFiles, clientVars, watchVars, orchVars, libVars>>

\* Config.AddBinding as the bind handler and createWebResources call it.
CfgAddBinding(e, r, path, saveOk) ==
    /\ nOps < MaxOps
    /\ nOps' = nOps + 1
    /\ doc' = [doc EXCEPT !.bindings = AddBinding(@, Binding(e, path, r, FirstVersion, TRUE))]
    /\ disk' = Written(doc', "", saveOk)
    /\ cfgOp' = Op("bind", e, NoName, <<>>, r, ErrOf("", saveOk))
    /\ UNCHANGED <<tokenFiles, clientVars, watchVars, orchVars, libVars>>

\* Config.UpdateBindingVersion as the publish commands call it.
CfgUpdateBindingVersion(e, r, saveOk) ==
    /\ nOps < MaxOps
    /\ nOps' = nOps + 1
    /\ doc' = [doc EXCEPT !.bindings = UpdateBindingVersion(@, e, r, NextVersion)]
    /\ disk' = Written(doc', IF HasBinding(doc.bindings, e, r) THEN "" ELSE "notfound", saveOk)
    /\ cfgOp' = Op("version", e, NoName, <<>>, r,
                   ErrOf(IF HasBinding(doc.bindings, e, r) THEN "" ELSE "notfound", saveOk))
    /\ UNCHANGED <<tokenFiles, clientVars, watchVars, orchVars, libVars>>

\* handleEnvSelectKey, "enter" on the i-th environment: what it does to the
\* document. The error of Save is dropped. The call records env.URL, which
\* d365.NewClient is given when LoadToken finds a token that is not expired.
SelectDoc(i, saveOk) ==
    /\ nOps < MaxOps
    /\ nOps' = nOps + 1
    /\ i \in DOMAIN doc.envs
    /\ doc' = [doc EXCEPT !.cur = doc.envs[i].name]
    /\ disk' = Save(doc', saveOk, disk)
    /\ cfgOp' = Op("select", doc.envs[i].name, NoName, doc.envs[i].url, "", "")

\* handleEnvSelectKey, "enter", seen from the document.
EnvSelectEnter(i, saveOk) ==
    /\ SelectDoc(i, saveOk)
    /\ UNCHANGED <<tokenFiles, clientVars, watchVars, orchVars, libVars>>

\* The orchestrator's name of an environment of the document.
EnvOf(name) == name[1]

\* handleEnvSelectKey, "enter" on the i-th environment at time t, whole.
handleEnvSelectKey(i, t, saveOk) ==
    /\ i \in DOMAIN doc.envs
    /\ EnvOf(doc.envs[i].name) \in Envs
    /\ SelectDoc(i, saveOk)
    /\ SelectScreen(EnvOf(doc.envs[i].name), t)
    /\ UNCHANGED <<tokenFiles, clientVars, watchVars, libVars>>

\* Selecting an environment, what follows from it, and the way back to the
\* environment list.
NextSelect ==
    \/ \E i \in 1..Len(doc.envs), t \in SelectTimes, saveOk \in BOOLEAN :
          handleEnvSelectKey(i, t, saveOk)
    \/ AuthEsc
    \/ \E c \in DOMAIN cmds, ok \in BOOLEAN : AuthRun(c, ok)
    \/ \E c \in DOMAIN cmds : TokenMsg(c)
    \/ \E c \in DOMAIN cmds : ErrMsg(c)
    \/ \E c \in DOMAIN cmds, err \in RemoteErrors \cup {"notConnected"} : FetchFails(c, err)
    \/ \E c \in DOMAIN cmds, rs \in ResourceLists : ResourcesMsg(c, rs)
    \/ \E c \in DOMAIN cmds : SetupRun(c)
    \/ \E c \in DOMAIN cmds : SetupFails(c)
    \/ \E c \in DOMAIN cmds : WatcherReadyMsg(c)
    \/ ListEsc

\* Update on tokenMsg: the token of a login at the URL of the current
\* environment is written to that environment's token file.
CfgTokenMsg(writeOk) ==
    /\ nOps < MaxOps
    /\ nOps' = nOps + 1
    /\ HasEnvironment(doc, doc.cur)
    /\ tokenFiles' = SaveToken(tokenFiles, doc.cur,
                                TokenFor(GetEnvironment(doc, doc.cur).url), writeOk)
    /\ cfgOp' = Op("token", doc.cur, NoName, <<>>, "", "")
    /\ UNCHANGED <<doc, disk, clientVars, watchVars, orchVars, libVars>>

\* handleEnvSelectKey, "c" on the i-th environment.
ClearAuth(i, removeOk) ==
    /\ nOps < MaxOps
    /\ nOps' = nOps + 1
    /\ i \in DOMAIN doc.envs
    /\ tokenFiles' = DeleteToken(tokenFiles, doc.envs[i].name, removeOk)
    /\ cfgOp' = Op("clearAuth", doc.envs[i].name, NoName, <<>>, "",
                   DeleteTokenErr(tokenFiles, doc.envs[i].name, removeOk))
    /\ UNCHANGED <<doc, disk, clientVars, watchVars, orchVars, libVars>>

\* handleInputMode, InputDeleteConfirm answered "y" on the i-th environment.
DeleteConfirm(i, saveOk) ==
    /\ nOps < MaxOps
    /\ nOps' = nOps + 1
    /\ i \in DOMAIN doc.envs
    /\ doc' = DeleteEnvironment(doc, doc.envs[i].name)
    /\ disk' = Written(doc', "", saveOk)
    /\ cfgOp' = Op("deleteFlow", doc.envs[i].name, NoName, <<>>, "", ErrOf("", saveOk))
    /\ UNCHANGED <<tokenFiles, clientVars, watchVars, orchVars, libVars>>

\* The document the program is started with: environments A and B, one
\* binding in A, and the token file of A.
InitDoc ==
    [cur |-> NoName,
     envs |-> <<Environment(EnvA, GoodUrl), Environment(EnvB, GoodUrl)>>,
     bindings |-> <<Binding(EnvA, "/w/b.js", "R1", FirstVersion, TRUE)>>]

InitConfig ==
    /\ doc = InitDoc
    /\ disk = InitDoc
    /\ tokenFiles = WriteFile(<<>>, tokenFilePath(EnvA), TokenFor(GoodUrl))
    /\ cfgOp = NoOp
    /\ nOps = 0

NextConfig ==
    \/ \E name \in NameInputs, url \in UrlInputs, saveOk \in BOOLEAN :
          CfgAddEnvironment(name, url, saveOk)
    \/ \E oldName \in CfgNames, newName \in NameInputs, url \in UrlInputs, saveOk \in BOOLEAN :
          CfgUpdateEnvironment(oldName, newName, url, saveOk)
    \/ \E name \in CfgNames, saveOk \in BOOLEAN : CfgDeleteEnvironment(name, saveOk)
    \/ \E e \in CfgNames, r \in Res, path \in CfgPaths, saveOk \in BOOLEAN :
          CfgAddBinding(e, r, path, saveOk)
    \/ \E e \in CfgNames, r \in Res, saveOk \in BOOLEAN : CfgUpdateBindingVersion(e, r, saveOk)
    \/ \E i \in 1..Len(doc.envs), saveOk \in BOOLEAN : EnvSelectEnter(i, saveOk)
    \/ \E writeOk \in BOOLEAN : CfgTokenMsg(writeOk)
    \/ \E i \in 1..Len(doc.envs), removeOk \in BOOLEAN : ClearAuth(i, removeOk)
    \/ \E i \in 1..Len(doc.envs), saveOk \in BOOLEAN : DeleteConfirm(i, saveOk)

-----------------------------------------------------------------------------
(* incrementVersion on its own: internal/tui/update.go *)

\* What one dot-separated part of a version string can be: integers, a
\* word, the empty string.
PartInputs == {"0", "1", "5", "x", ""}

\* strings.Split(version, ".") of the version strings passed: one part at
\* least (the empty string splits into one empty part).
VersionInputs == UNION {[1..n -> PartInputs] : n \in 1..MaxParts}

CallIncrementVersion(version) ==
    /\ verArg' = version
    /\ verRes' = incrementVersion(version)
    /\ UNCHANGED <<clientVars, watchVars, orchVars, configVars, pollVars, credVars, inputVars>>

InitVersion ==
    /\ verArg = FirstVersion
    /\ verRes = <<>>

NextIncrement == \E version \in VersionInputs : CallIncrementVersion(version)

-----------------------------------------------------------------------------
(* PollForToken: package auth, device code flow *)

\* time.After(5 * time.Minute), in seconds
PollTimeoutSec == 300

\* expires_in of a token response, in seconds
ExpiresInSec == 3600

\* What one poll can come back with: http.Post or io.ReadAll failed, the
\* body is not JSON, an error code, an access token, or a JSON body with
\* neither an error nor an access token.
PollResponses ==
    {"transport", "decode", "authorization_pending", "slow_down", "access_denied",
     "token", "empty"}

\* TokenResponse.Error of a response that was decoded.
ErrorCode(resp) ==
    IF resp \in {"authorization_pending", "slow_down", "access_denied"} THEN resp ELSE ""

\* The clock stops one step after the timeout.
MaxPollClock == PollTimeoutSec + PollStepSec

MutTimedOut(t) == FALSE

\* The channel of time.After(5 * time.Minute) can be received from.
TimedOut(t) == t >= PollTimeoutSec

\* A tick of a ticker of period interval falls in (t1, t2].
TickIn(t1, t2, interval) == (t2 \div interval) > (t1 \div interval)

NoPoll ==
    [pc |-> "select", result |-> "none", polled |-> FALSE, last |-> "",
     interval |-> IntervalSec, expiresAt |-> 0]

\* Time passes, while the call waits in select or in http.Post. The ticker
\* channel holds one tick at most.
PollAdvance ==
    /\ poll.pc # "done"
    /\ pollNow < MaxPollClock
    /\ pollNow' = pollNow + PollStepSec
    /\ tickReady' = (tickReady \/ TickIn(pollNow, pollNow', poll.interval))
    /\ UNCHANGED <<poll, clientVars, watchVars, orchVars, configVars, versionVars, credVars, inputVars>>

\* select, case <-timeout
SelectTimeout ==
    /\ poll.pc = "select"
    /\ TimedOut(pollNow)
    /\ poll' = [poll EXCEPT !.pc = "done", !.result = "timeout"]
    /\ UNCHANGED <<pollNow, tickReady, clientVars, watchVars, orchVars, configVars, versionVars, credVars, inputVars>>

\* select, case <-ticker.C: the request is sent.
SelectTick ==
    /\ poll.pc = "select"
    /\ tickReady
    /\ tickReady' = FALSE
    /\ poll' = [poll EXCEPT !.pc = "post", !.polled = TRUE]
    /\ UNCHANGED <<pollNow, clientVars, watchVars, orchVars, configVars, versionVars, credVars, inputVars>>

\* The request comes back and the rest of the case body runs.
PostReturns(resp) ==
    /\ poll.pc = "post"
    /\ poll' =
         IF resp \in {"transport", "decode"}
         THEN [poll EXCEPT !.pc = "select", !.last = resp]
         ELSE IF ErrorCode(resp) = "authorization_pending"
         THEN [poll EXCEPT !.pc = "select", !.last = resp]
         ELSE IF ErrorCode(resp) # ""
         THEN [poll EXCEPT !.pc = "done", !.last = resp, !.result = "denied"]
         ELSE IF resp = "token"
         THEN [poll EXCEPT !.pc = "done", !.last = resp, !.result = "token",
                           !.expiresAt = pollNow + ExpiresInSec]
         ELSE [poll EXCEPT !.pc = "select", !.last = resp]
    /\ UNCHANGED <<pollNow, tickReady, clientVars, watchVars, orchVars, configVars, versionVars, credVars, inputVars>>

InitPoll ==
    /\ poll = NoPoll
    /\ pollNow = 0
    /\ tickReady = FALSE

NextPoll ==
    \/ PollAdvance
    \/ SelectTimeout
    \/ SelectTick
    \/ \E resp \in PollResponses : PostReturns(resp)

-----------------------------------------------------------------------------
(* Token files: LoadToken, SaveToken, DeleteToken of package auth *)

\* Environment names: AddEnvironment accepts any name that is not empty
\* once trimmed.
CredNames == {<<"A">>, <<"a", "/", "b">>, <<"a", "\\", "b">>, <<"a", "_", "b">>}

\* The Token a login into the environment of that name returns.
TokenOf(envName) == [issuedFor |-> envName]

NoTokenRead == [issuedFor |-> <<>>]

NoCall == [op |-> "", name |-> <<>>, got |-> NoTokenRead, err |-> "", pre |-> <<>>]

\* LoadToken(envName): the Token in the file, or an error when there is none.
CallLoadToken(envName) ==
    /\ credOp' =
         [op |-> "load", name |-> envName, pre |-> credFiles,
          got |-> IF tokenFilePath(envName) \in DOMAIN credFiles
                  THEN credFiles[tokenFilePath(envName)] ELSE NoTokenRead,
          err |-> IF tokenFilePath(envName) \in DOMAIN credFiles THEN "" ELSE "read"]
    /\ UNCHANGED <<credFiles, clientVars, watchVars, orchVars, configVars, versionVars, pollVars, inputVars>>

\* SaveToken(envName, token), with the token of a login into envName.
CallSaveToken(envName, writeOk) ==
    /\ credFiles' =
         IF writeOk THEN WriteFile(credFiles, tokenFilePath(envName), TokenOf(envName))
         ELSE credFiles
    /\ credOp' =
         [op |-> "save", name |-> envName, pre |-> credFiles, got |-> NoTokenRead,
          err |-> IF writeOk THEN "" ELSE "write"]
    /\ UNCHANGED <<clientVars, watchVars, orchVars, configVars, versionVars, pollVars, inputVars>>

\* DeleteToken(envName): no error when the file does not exist.
CallDeleteToken(envName, removeOk) ==
    /\ credFiles' =
         IF removeOk THEN Remove(credFiles, tokenFilePath(envName)) ELSE credFiles
    /\ credOp' =
         [op |-> "delete", name |-> envName, pre |-> credFiles, got |-> NoTokenRead,
          err |-> IF ~removeOk /\ tokenFilePath(envName) \in DOMAIN credFiles
                  THEN "remove" ELSE ""]
    /\ UNCHANGED <<clientVars, watchVars, orchVars, configVars, versionVars, pollVars, inputVars>>

\* No token file yet.
InitCred ==
    /\ credFiles = <<>>
    /\ credOp = NoCall

NextCred ==
    \/ \E envName \in CredNames : CallLoadToken(envName)
    \/ \E envName \in CredNames, writeOk \in BOOLEAN : CallSaveToken(envName, writeOk)
    \/ \E envName \in CredNames, removeOk \in BOOLEAN : CallDeleteToken(envName, removeOk)

-----------------------------------------------------------------------------
(* The add and edit flows of the environment list: handleEnvSelectKey "a"
   and "e", handleInputMode *)

\* What the user types as a name, before trimming.
NameValues == {<<>>, <<"X">>, <<Space, "X", Space>>, <<"A", "|", "X">>, <<"B">>}

\* What the user types as a URL, before trimming.
UrlValues == {<<>>, GoodUrl, PaddedUrl, <<"http://", "o", ".crm", ".dynamics.com">>}

\* strings.Contains(s, "|")
ContainsBar(s) == \E i \in DOMAIN s : s[i] = "|"

\* strings.SplitN(s, "|", 2), for s that contains "|"
SplitN(s) ==
    LET i == CHOOSE k \in DOMAIN s : s[k] = "|" /\ \A j \in 1..(k - 1) : s[j] # "|"
    IN  <<SubSeq(s, 1, i - 1), SubSeq(s, i + 1, Len(s))>>

\* No input in progress. flow, selected and entered record which key opened
\* the input, the environment the cursor was on, and the name typed.
NoInput ==
    [inputMode |-> "none", editingEnvName |-> <<>>, flow |-> "", selected |-> NoName,
     entered |-> NoName]

\* handleEnvSelectKey, "a"
KeyAdd ==
    /\ envInput.inputMode = "none"
    /\ envInput' = [NoInput EXCEPT !.inputMode = "name", !.flow = "add"]
    /\ UNCHANGED <<clientVars, watchVars, orchVars, configVars, versionVars, pollVars, credVars>>

\* handleEnvSelectKey, "e" on the i-th environment
KeyEdit(i) ==
    /\ envInput.inputMode = "none"
    /\ i \in DOMAIN doc.envs
    /\ envInput' = [NoInput EXCEPT !.inputMode = "name", !.flow = "edit",
                                   !.editingEnvName = doc.envs[i].name,
                                   !.selected = doc.envs[i].name]
    /\ UNCHANGED <<clientVars, watchVars, orchVars, configVars, versionVars, pollVars, credVars>>

\* handleInputMode, "esc"
InputEsc ==
    /\ envInput.inputMode # "none"
    /\ envInput' = NoInput
    /\ UNCHANGED <<clientVars, watchVars, orchVars, configVars, versionVars, pollVars, credVars>>

\* handleInputMode, "enter" in InputEnvironmentName with the text typed.
EnterName(text) ==
    /\ envInput.inputMode = "name"
    /\ LET value == TrimSpace(text)
       IN  envInput' =
             IF value = <<>> THEN [envInput EXCEPT !.inputMode = "none"]
             ELSE IF envInput.editingEnvName # <<>>
             THEN IF HasEnvironment(doc, envInput.editingEnvName)
                  THEN [envInput EXCEPT
                           !.inputMode = "url", !.entered = value,
                           !.editingEnvName = envInput.editingEnvName \o <<"|">> \o value]
                  ELSE envInput
             ELSE [envInput EXCEPT !.inputMode = "url", !.entered = value,
                                   !.editingEnvName = value]
    /\ UNCHANGED <<clientVars, watchVars, orchVars, configVars, versionVars, pollVars, credVars>>

\* handleInputMode, "enter" in InputEnvironmentURL with the text typed.
EnterURL(text, saveOk) ==
    /\ envInput.inputMode = "url"
    /\ nOps < MaxOps
    /\ nOps' = nOps + 1
    /\ LET value == TrimSpace(text)
           editing == envInput.editingEnvName
           parts == SplitN(editing)
       IN  IF value = <<>> \/ editing = <<>>
           THEN /\ UNCHANGED <<doc, disk>>
                /\ cfgOp' = Op("none", NoName, NoName, value, "", "")
           ELSE IF ContainsBar(editing)
           THEN /\ doc' = UpdateEnvironment(doc, parts[1], parts[2], value)
                /\ disk' = Written(doc', UpdateEnvironmentErr(doc, parts[1], parts[2], value),
                                   saveOk)
                /\ cfgOp' = Op("update", parts[1], parts[2], value, "",
                               ErrOf(UpdateEnvironmentErr(doc, parts[1], parts[2], value),
                                     saveOk))
           ELSE /\ doc' = AddEnvironment(doc, editing, value)
                /\ disk' = Written(doc', AddEnvironmentErr(doc, editing, value), saveOk)
                /\ cfgOp' = Op("add", editing, NoName, value, "",
                               ErrOf(AddEnvironmentErr(doc, editing, value), saveOk))
    /\ envInput' = NoInput
    /\ UNCHANGED <<tokenFiles, clientVars, watchVars, orchVars, versionVars, pollVars, credVars>>

InitInput == envInput = NoInput

NextInput ==
    \/ KeyAdd
    \/ \E i \in 1..Len(doc.envs) : KeyEdit(i)
    \/ InputEsc
    \/ \E text \in NameValues : EnterName(text)
    \/ \E text \in UrlValues, saveOk \in BOOLEAN : EnterURL(text, saveOk)

-----------------------------------------------------------------------------
(* Specifications *)

InitLib == InitVersion /\ InitPoll /\ InitCred /\ InitInput

Init == InitClient /\ InitWatch /\ InitOrch /\ InitConfig /\ InitLib

SpecClient == Init /\ [][NextClient]_vars

SpecWatch == Init /\ [][NextWatch]_vars

Spec == Init /\ [][NextOrch]_vars

\* ListSession is a state Spec reaches: SelectEnvironment("A", t) before the token expires,
\* ResourcesMsg(c, Res), SetupRun(c), WatcherReadyMsg(c).
InitSession == InitClient /\ InitWatch /\ ListSession /\ InitConfig /\ InitLib

SpecPublish == InitSession /\ [][NextPublish]_vars

\* The list screen of environment A with two publishes of R1 in flight: "p"
\* was pressed on R1 (KeyPublish) and a change of its file was received
\* (FsEmit, FileChangeMsg) before either command ran.
OverlapSession ==
    /\ state = "List"
    /\ cur = "A"
    /\ bindings = InitBindings
    /\ store = InitStore
    /\ mClient = [url |-> UrlOf("A"), c |-> ClientFromStoredToken(IssuedFor("A"))]
    /\ resources = Res
    /\ bindingResource = ""
    /\ mWatcher = 1
    /\ watchers = <<AddAll(NewWatcher, GetBindingsForEnvironment(InitBindings, "A"))>>
    /\ chan = <<>>
    /\ waiters = 1
    /\ publishing = {"R1"}
    /\ cmds = BagAdd(BagAdd(EmptyBag, publishResource(mClient, "R1")),
                     handleFileChange(mClient, [path |-> "/w/b.js", stale |-> FALSE,
                                                from |-> "A"], Res))
    /\ nPub = 0
    /\ nEdits = 0

\* The list screen: the resource list is loaded again (refresh key) and
\* setupWatchers runs again, while files change and are published.
NextReload ==
    \/ KeyRefresh
    \/ \E c \in DOMAIN cmds, err \in RemoteErrors : FetchFails(c, err)
    \/ \E c \in DOMAIN cmds, rs \in ResourceLists : ResourcesMsg(c, rs)
    \/ \E c \in DOMAIN cmds : SetupRunWithin(c, 1 + MaxReloads)
    \/ \E c \in DOMAIN cmds : SetupFails(c)
    \/ \E c \in DOMAIN cmds : WatcherReadyMsg(c)
    \/ \E c \in DOMAIN cmds : ErrMsg(c)
    \/ \E i \in 1..(1 + MaxReloads), path \in Paths : FsEmit(i, path)
    \/ FileChangeMsg
    \/ \E c \in DOMAIN cmds : AutoStart(c)
    \/ \E c \in DOMAIN cmds, readable \in ReadableAt, updOk, pubOk, saveOk \in BOOLEAN :
          \E version \in VersionsRead(c) : PublishRun(c, readable, updOk, pubOk, saveOk, version)
    \/ \E c \in DOMAIN cmds : PublishResultMsg(c)

SpecReload == InitSession /\ [][NextReload]_vars

\* The environment list after "esc" on the list screen of A, with a publish
\* of R1 still in flight: "p" was pressed on R1, or a change of its file was
\* received, just before.
SwitchSession ==
    /\ state = "EnvSelect"
    /\ cur = "A"
    /\ bindings = InitBindings
    /\ store = InitStore
    /\ mClient = [url |-> UrlOf("A"), c |-> ClientFromStoredToken(IssuedFor("A"))]
    /\ resources = {}
    /\ bindingResource = ""
    /\ mWatcher = 1
    /\ watchers = <<Clear(AddAll(NewWatcher, GetBindingsForEnvironment(InitBindings, "A")))>>
    /\ chan = <<>>
    /\ waiters = 1
    /\ publishing = {"R1"}
    /\ cmds \in {BagAdd(EmptyBag, publishResource(mClient, "R1")),
                 BagAdd(EmptyBag, handleFileChange(mClient, [path |-> "/w/b.js",
                                                            stale |-> FALSE,
                                                            from |-> "A"], Res))}
    /\ nPub = MaxPublishes
    /\ nEdits = 0

InitSwitch == InitClient /\ InitWatch /\ SwitchSession /\ InitConfig /\ InitLib

\* handleEnvSelectKey, "enter", while the publish is in flight.
SelectDuringPublish(e, t) ==
    /\ SelectScreenWithin(e, t, MaxCmds + 1)
    /\ UNCHANGED <<clientVars, watchVars, configVars, libVars>>

\* Another environment is selected while the publish runs.
NextSwitch ==
    \/ \E e \in Envs, t \in SelectTimes : SelectDuringPublish(e, t)
    \/ AuthEsc
    \/ \E c \in DOMAIN cmds, ok \in BOOLEAN : AuthRun(c, ok)
    \/ \E c \in DOMAIN cmds : TokenMsg(c)
    \/ \E c \in DOMAIN cmds : ErrMsg(c)
    \/ \E c \in DOMAIN cmds, err \in RemoteErrors : FetchFails(c, err)
    \/ \E c \in DOMAIN cmds, rs \in ResourceLists : ResourcesMsg(c, rs)
    \/ \E c \in DOMAIN cmds : SetupRunWithin(c, 1 + MaxReloads)
    \/ \E c \in DOMAIN cmds : SetupFails(c)
    \/ \E c \in DOMAIN cmds : WatcherReadyMsg(c)
    \/ ListEsc
    \/ \E c \in DOMAIN cmds : ManualStart(c)
    \/ \E c \in DOMAIN cmds : AutoStart(c)
    \/ \E c \in DOMAIN cmds, readable \in ReadableAt, updOk, pubOk, saveOk \in BOOLEAN :
          \E version \in VersionsRead(c) : PublishRun(c, readable, updOk, pubOk, saveOk, version)
    \/ \E c \in DOMAIN cmds : PublishResultMsg(c)

SpecSwitch == InitSwitch /\ [][NextSwitch]_vars

InitOverlap == InitClient /\ InitWatch /\ OverlapSession /\ InitConfig /\ InitLib

SpecOverlap == InitOverlap /\ [][NextPublish]_vars

SpecConfig == Init /\ [][NextConfig]_vars

SpecVersion == Init /\ [][NextIncrement]_vars

SpecSelect == Init /\ [][NextSelect]_vars

SpecPoll == Init /\ [][NextPoll]_vars

SpecCred == Init /\ [][NextCred]_vars

SpecInput == Init /\ [][NextInput]_vars

\* Time passes and a request that was sent comes back. Go's select picks
\* among the ready cases at random: the timeout case, ready at every return
\* to select once the five minutes are over, is not passed over for ever.
SpecPollFair ==
    /\ SpecPoll
    /\ WF_vars(PollAdvance)
    /\ WF_vars(\E resp \in PollResponses : PostReturns(resp))
    /\ SF_vars(SelectTimeout)

-----------------------------------------------------------------------------
(* Claims about the request primitive (SpecClient) *)

Is401(a) == ~a.err /\ a.status = 401
GoodRefresh(o) == ~o.err /\ o.token # 0

\* C2: one doRequest call invokes the refresh callback at most once and
\* sends at most twice, whatever the server answers; when the first answer
\* is 401 and the refresh returns a non-empty token, the client's token is
\* replaced, the request is sent once more with the new token, and a 401 on
\* that second send ends the call with Unauthorized, with no other refresh
\* or send.
C2_OneRefreshOneRetry ==
    /\ call.refreshes <= 1
    /\ call.sends <= 2
    /\ call.sends = Len(call.answers)
    /\ (call.refreshes = 1 /\ GoodRefresh(call.refreshOuts[1])) =>
          /\ Is401(call.answers[1])
          /\ cl.accessToken = call.refreshOuts[1].token
          /\ call.pc \in {"send", "done"}
          /\ call.pc = "send" => call.sends = 1
          /\ call.pc = "done" =>
                /\ call.sends = 2
                /\ call.sentWith[2] = call.refreshOuts[1].token
                /\ Is401(call.answers[2]) => call.result = "Unauthorized"

C2_Witness ==
    /\ call.pc = "done"
    /\ call.sends = 2
    /\ Is401(call.answers[1])
    /\ Is401(call.answers[2])
    /\ call.refreshes = 1
    /\ call.result = "Unauthorized"

\* C3: when a request is answered 401 and the silent refresh fails (an
\* error, or an empty token), the call returns Unauthorized, the request was
\* sent exactly once, and the client's access token is the one it had.
C3_FailedRefreshNoRetry ==
    (call.refreshes >= 1 /\ ~GoodRefresh(call.refreshOuts[1])) =>
        /\ call.pc = "done"
        /\ call.result = "Unauthorized"
        /\ call.sends = 1
        /\ call.sentWith = <<call.tok0>>
        /\ cl.accessToken = call.tok0

C3_Witness ==
    /\ call.pc = "done"
    /\ call.refreshes = 1
    /\ call.refreshOuts[1] = [err |-> FALSE, token |-> 0]
    /\ call.result = "Unauthorized"

\* C4: on every client the orchestrator builds, from a stored token or from
\* a login, a call returns Unauthorized only after exactly one refresh
\* attempt.
C4_UnauthorizedOnlyAfterRefresh ==
    call.result = "Unauthorized" => call.refreshes = 1

-----------------------------------------------------------------------------
(* Claims about the watch engine (SpecWatch) *)

\* C7: for every tracked path p, a qualifying event on p at time t emits a
\* change iff no change for p was emitted less than 300 ms before t; the
\* debounce map is stamped only when a change is emitted, so it always
\* holds the time of the last emitted change; two emitted changes for one
\* path are at least 300 ms apart; an event on one path changes nothing for
\* another path.
C7_Debounce ==
    /\ [](debounce = emits)
    /\ [][evFlip' # evFlip =>
            LET p == lastEv'.name
                quiet == p \notin DOMAIN emits \/ now - emits[p] >= 300
            IN  /\ lastEv'.handled => (lastEv'.emitted <=> quiet)
                /\ lastEv'.emitted => lastEv'.handled /\ p \in wt.files
                /\ lastEv'.emitted => p \in DOMAIN emits' /\ emits'[p] = now
                /\ ~lastEv'.emitted => emits' = emits
                /\ \A q \in DOMAIN emits \ {p} : emits'[q] = emits[q]
                /\ \A q \in DOMAIN debounce \ {p} : debounce'[q] = debounce[q]
       ]_vars

\* A change on a tracked path is suppressed one tick after an emitted one,
\* while another path emitted its own change in between.
C7_Witness ==
    /\ lastEv.handled
    /\ ~lastEv.emitted
    /\ now - emits[lastEv.name] = TickMs
    /\ \E q \in DOMAIN emits \ {lastEv.name} : emits[q] > emits[lastEv.name]

-----------------------------------------------------------------------------
(* Claims about the orchestrator (Spec) *)

\* The absolute paths of the autoPublish bindings of environment e.
AutoPaths(bs, e) ==
    {Abs(bs[i].path) : i \in {j \in 1..Len(bs) : bs[j].env = e /\ bs[j].auto}}

\* No listing and no watcher setup is under way.
Settled == \A c \in DOMAIN cmds : c.kind \notin {"fetch", "setup"}

\* C1: on the list screen, once the listing and the watcher setup are over,
\* the files the installed watcher tracks are exactly the absolute local
\* paths of the autoPublish bindings of the current environment.
C1_WatchSetIsAutoBindings ==
    (state = "List" /\ mWatcher # 0 /\ Settled) =>
        watchers[mWatcher].files = AutoPaths(bindings, cur)

\* The message of command c is being handled in this step.
Handled(c) == c \in DOMAIN cmds /\ (c \notin DOMAIN cmds' \/ cmds'[c] < cmds[c])

\* The message of command c is produced in this step.
Produced(c) == c \in DOMAIN cmds' /\ (c \notin DOMAIN cmds \/ cmds'[c] > cmds[c])

\* C5: a token that arrives when the screen is no longer the authentication
\* screen, or when the current environment is not the one the token was
\* requested for, changes neither the screen, nor the client, nor the
\* credential store; and the store never holds, under an environment, a
\* token issued for another.
C5_LateTokenDiscarded ==
    /\ [](\A e \in Envs : store[e] # NoToken => store[e].accessToken = IssuedFor(e))
    /\ [][\A c \in DOMAIN cmds :
            (/\ c.kind = "auth" /\ c.pc = "msg" /\ c.out = "tokenMsg"
             /\ Handled(c)
             /\ (state # "Auth" \/ cur # c.env))
            => (state' = state /\ mClient' = mClient /\ store' = store)
       ]_vars

\* C6: no change notification emitted under one environment and older than
\* the clear of the watch set gets its file sent to another environment.
C6_NoTriggerFromOldWatchSet ==
    \A c \in DOMAIN cmds :
        (c.kind = "auto" /\ c.stale /\ c.from # c.env) => ~Took(c.log, "update")

Finished(c) ==
    c.kind \in {"manual", "auto"} /\ c.pc = "msg" /\ c.out \in {"success", "failure"}

Before(log, i, name) == \E j \in 1..(i - 1) : log[j] = Step(name, TRUE)

\* C8: in every publish attempt, manual or auto, the content update is sent
\* before the activate request and the activate request only after the
\* update succeeded; the binding list changes only with a version bump,
\* which comes after both succeeded; when the update or the activate fails
\* the binding list is left as it was and the result is a failure carrying
\* the binding's local path and the resource id.
C8_UpdateThenActivateThenBump ==
    [][\A c \in DOMAIN cmds' :
          (Finished(c) /\ Produced(c)) =>
             /\ \A i \in 1..Len(c.log) :
                   /\ c.log[i].step = "publish" => Before(c.log, i, "update")
                   /\ c.log[i].step = "bump" =>
                         Before(c.log, i, "update") /\ Before(c.log, i, "publish")
             /\ bindings' # bindings => Took(c.log, "bump")
             /\ (\E i \in 1..Len(c.log) :
                    c.log[i].step \in {"update", "publish"} /\ ~c.log[i].ok) =>
                   /\ bindings' = bindings
                   /\ c.out = "failure"
                   /\ c.path \in LocalPaths
                   /\ c.res \in Res
      ]_vars

\* An auto publish whose activate request failed has reported its result.
C8_Witness ==
    \E c \in DOMAIN cmds :
        /\ Finished(c) /\ c.kind = "auto" /\ c.out = "failure"
        /\ c.log = <<Step("read", TRUE), Step("update", TRUE), Step("publish", FALSE)>>

\* C9: a publish whose update and activate succeeded but whose version could
\* not be persisted reports neither a plain success nor a failure.
C9_PersistFailedIsDistinct ==
    \A c \in DOMAIN cmds :
        (Finished(c) /\ c.lost) => c.out \notin {"success", "failure"}

\* C10: a resource is marked in progress only while a publish command that
\* will clear the marker is in flight: a manual or auto publish of that
\* resource, or an auto publish that has not searched its binding yet.
C10_MarkerHasTask ==
    \A r \in publishing :
        \E c \in DOMAIN cmds :
            /\ c.kind \in {"manual", "auto"}
            /\ c.res = r \/ (c.kind = "auto" /\ c.pc = "start")

\* C11: when a change notification for the file of an autoPublish binding
\* of the current, authenticated environment is taken from the channel, a
\* handleFileChange command is started for it; no notification is consumed
\* without one.
C11_EmittedChangeIsPublished ==
    [][(/\ chan # <<>>
        /\ chan' = Tail(chan)
        /\ mClient # NoConn
        /\ MarkedBy(bindings, cur, Head(chan).path) # {})
       => \E c \in DOMAIN cmds' : c.kind = "auto" /\ Produced(c)
      ]_vars

\* C12: a step in which the body of a command runs to its message (a
\* worker goroutine, not a handler of the message loop) leaves the binding
\* list of the configuration document as it was.
C12_WorkersNeverWriteDocument ==
    [][(\E c \in DOMAIN cmds' : Produced(c) /\ c.pc = "msg") => bindings' = bindings]_vars

-----------------------------------------------------------------------------
(* Claims about the configuration document (SpecConfig) *)

Called(op) == cfgOp.op = op
Failed == cfgOp.err # ""
Untouched == doc = cfgOp.pre /\ disk = cfgOp.preDisk

\* C13: starting from a document with one binding per key, every document
\* reached by AddBinding, UpdateBindingVersion, AddEnvironment,
\* UpdateEnvironment and DeleteEnvironment calls has at most one binding per
\* (environment, resource id).
C13_OneBindingPerKey ==
    \A i, j \in DOMAIN doc.bindings :
        (doc.bindings[i].env = doc.bindings[j].env /\ doc.bindings[i].res = doc.bindings[j].res)
            => i = j

\* C14: starting from a document with unique environment names, no two
\* environments of a document reached by AddEnvironment, UpdateEnvironment
\* and DeleteEnvironment calls have the same name, in memory or on disk.
C14_UniqueEnvironmentNames ==
    \A c \in {doc, disk} :
        \A i, j \in DOMAIN c.envs : c.envs[i].name = c.envs[j].name => i = j

\* An add or a rename was refused because the name is in use.
C14_Witness ==
    /\ Called("add") \/ Called("update")
    /\ cfgOp.err = "exists"
    /\ Len(doc.envs) >= 2

\* C15: in every state reached by select, add, rename and delete calls,
\* currentEnvironment is empty or is the name of an environment of the
\* document, in memory and on disk.
C15_CurrentEnvironmentExists ==
    \A c \in {doc, disk} : c.cur = NoName \/ HasEnvironment(c, c.cur)

\* The selected environment was renamed and currentEnvironment followed it.
C15_Witness ==
    /\ Called("update")
    /\ cfgOp.pre.cur = cfgOp.name
    /\ doc.cur # NoName
    /\ doc.cur # cfgOp.pre.cur

\* C16: DeleteEnvironment(name) on a name the document has removes that
\* environment and every binding of it, empties currentEnvironment when it
\* was name and leaves it alone otherwise, and keeps every other environment
\* and binding, in order; on a name the document does not have it fails
\* with not-found and leaves the document as it was.
C16_DeleteEnvironment ==
    Called("delete") =>
        IF \E i \in DOMAIN cfgOp.pre.envs : cfgOp.pre.envs[i].name = cfgOp.name
        THEN /\ cfgOp.err \in {"", "save"}
             /\ doc.envs = SelectSeq(cfgOp.pre.envs, LAMBDA env : env.name # cfgOp.name)
             /\ doc.bindings = SelectSeq(cfgOp.pre.bindings, LAMBDA b : b.env # cfgOp.name)
             /\ doc.cur = IF cfgOp.pre.cur = cfgOp.name THEN NoName ELSE cfgOp.pre.cur
        ELSE cfgOp.err = "notfound" /\ Untouched

\* The selected environment, which had a binding, was deleted.
C16_Witness ==
    /\ Called("delete")
    /\ ~Failed
    /\ cfgOp.pre.cur = cfgOp.name
    /\ Len(doc.bindings) < Len(cfgOp.pre.bindings)
    /\ doc.envs # <<>>

\* ^https://[A-Za-z0-9-]+\.crm[0-9]*\.dynamics\.com$
MatchesGrammar(url) ==
    /\ Len(url) >= 4
    /\ url[1] = "https://"
    /\ url[Len(url)] = ".dynamics.com"
    /\ \E k \in 2..(Len(url) - 2) :
          /\ \A i \in 2..k : url[i] \in OrgChars
          /\ url[k + 1] = ".crm"
          /\ \A i \in (k + 2)..(Len(url) - 1) : url[i] \in DigitChars

\* C17: AddEnvironment fails and leaves the document, in memory and on disk,
\* as it was when the trimmed name is empty, when an environment has the
\* trimmed name, or when the trimmed url does not match the grammar;
\* otherwise it appends one environment with the trimmed name and url.
C17_AddEnvironment ==
    Called("add") =>
        IF \/ TrimSpace(cfgOp.name) = <<>>
           \/ \E i \in DOMAIN cfgOp.pre.envs : cfgOp.pre.envs[i].name = TrimSpace(cfgOp.name)
           \/ ~MatchesGrammar(TrimSpace(cfgOp.url))
        THEN Failed /\ Untouched
        ELSE /\ doc.envs = Append(cfgOp.pre.envs,
                                  [name |-> TrimSpace(cfgOp.name), url |-> TrimSpace(cfgOp.url)])
             /\ doc.bindings = cfgOp.pre.bindings
             /\ doc.cur = cfgOp.pre.cur

\* An environment was added from a name and a url with surrounding spaces.
C17_Witness ==
    /\ Called("add")
    /\ ~Failed
    /\ cfgOp.name # TrimSpace(cfgOp.name)
    /\ cfgOp.url # TrimSpace(cfgOp.url)
    /\ disk = doc

\* The document after the environment named old became (name, url): that
\* entry rewritten, the bindings of old re-labelled, currentEnvironment
\* moved when it was old, everything else as before the call.
Renamed(old, name, url) ==
    /\ doc.envs = [i \in DOMAIN cfgOp.pre.envs |->
                      IF cfgOp.pre.envs[i].name = old THEN [name |-> name, url |-> url]
                      ELSE cfgOp.pre.envs[i]]
    /\ doc.bindings = [j \in DOMAIN cfgOp.pre.bindings |->
                          IF cfgOp.pre.bindings[j].env = old
                          THEN [cfgOp.pre.bindings[j] EXCEPT !.env = name]
                          ELSE cfgOp.pre.bindings[j]]
    /\ doc.cur = IF cfgOp.pre.cur = old THEN name ELSE cfgOp.pre.cur

\* The conditions under which a rename of old to (name, url) is refused.
Refused(old, name, url) ==
    \/ ~MatchesGrammar(url)
    \/ name = <<>>
    \/ name # old /\ \E i \in DOMAIN cfgOp.pre.envs : cfgOp.pre.envs[i].name = name
    \/ \A i \in DOMAIN cfgOp.pre.envs : cfgOp.pre.envs[i].name # old

\* C18 as stated: UpdateEnvironment(oldName, newName, url) renames the
\* environment to newName with url, re-labels exactly the bindings of oldName
\* to newName, moves currentEnvironment to newName iff it was oldName and
\* leaves the rest unchanged; it fails without modifying the document when
\* url is invalid, newName is empty, newName differs from oldName and is in
\* use, or oldName is unknown -- newName and url taken as they are passed.
C18_UpdateEnvironmentAsPassed ==
    Called("update") =>
        IF Refused(cfgOp.name, cfgOp.newName, cfgOp.url)
        THEN Failed /\ Untouched
        ELSE Renamed(cfgOp.name, cfgOp.newName, cfgOp.url)

\* C18, amended: the same with newName and url trimmed of surrounding
\* whitespace before they are checked and stored.
C18_UpdateEnvironmentTrimmed ==
    Called("update") =>
        IF Refused(cfgOp.name, TrimSpace(cfgOp.newName), TrimSpace(cfgOp.url))
        THEN Failed /\ Untouched
        ELSE Renamed(cfgOp.name, TrimSpace(cfgOp.newName), TrimSpace(cfgOp.url))

\* The selected environment, which has a binding, was renamed from a name
\* passed with surrounding spaces.
C18_Witness ==
    /\ Called("update")
    /\ ~Failed
    /\ cfgOp.newName # TrimSpace(cfgOp.newName)
    /\ cfgOp.pre.cur = cfgOp.name
    /\ \E j \in DOMAIN cfgOp.pre.bindings : cfgOp.pre.bindings[j].env = cfgOp.name
    /\ doc.cur = TrimSpace(cfgOp.newName)

\* C19: after an environment was deleted through the delete confirmation,
\* and after a "clear auth" on an environment that reported no error, no
\* token file of that environment's name exists.
C19_NoTokenAfterDeleteOrClear ==
    ((Called("deleteFlow") \/ Called("clearAuth")) /\ ~Failed)
        => tokenFilePath(cfgOp.name) \notin DOMAIN tokenFiles

-----------------------------------------------------------------------------
(* Claims about the file read of a publish (SpecPublish) *)

\* C20: a publish command that reports a read failure, started by 'publish
\* now' or by a change notification, has made all 5 read attempts, has sent
\* no remote request and has not bumped the version.
C20_ReadFailsOnlyAfterAllAttempts ==
    \A c \in DOMAIN cmds :
        (c.kind \in {"manual", "auto"} /\ c.pc = "msg" /\ c.log = <<Step("read", FALSE)>>)
            => c.reads = ReadAttempts

-----------------------------------------------------------------------------
(* Claims about incrementVersion (SpecVersion) *)

\* C21: incrementVersion returns major.minor.(patch+1), major and minor
\* unchanged, when the version is exactly three dot-separated integers, and
\* "1.0.1" for every other version.
C21_IncrementVersion ==
    verRes # <<>> =>
        IF Len(verArg) = 3 /\ \A i \in 1..3 : IsNum(verArg[i])
        THEN verRes = <<verArg[1], verArg[2], Itoa(Atoi(verArg[3]) + 1)>>
        ELSE verRes = <<"1", "0", "1">>

-----------------------------------------------------------------------------
(* Claims about the status handling of the request primitive (SpecClient) *)

\* C22: a response whose status code is outside 200-299 and is not 401 ends
\* the call with an API error, and no request is sent after it.
C22_NonSuccessStatusFails ==
    \A i \in 1..Len(call.answers) :
        (/\ ~call.answers[i].err
         /\ call.answers[i].status \notin 200..299
         /\ call.answers[i].status # StatusUnauthorized)
        => /\ i = Len(call.answers)
           /\ call.pc = "done"
           /\ call.result = "APIError"

-----------------------------------------------------------------------------
(* Claims about errors that reach the message loop (Spec) *)

\* C23: when the message of a remote call that ended with Unauthorized is
\* handled, the screen becomes the authentication screen and an
\* authentication command is started.
C23_UnauthorizedStartsReauth ==
    [][\A c \in DOMAIN cmds :
          (Handled(c) /\ c.pc = "msg" /\ c.err = "Unauthorized")
              => /\ state' = "Auth"
                 /\ \E d \in DOMAIN cmds' : d.kind = "auth" /\ Produced(d)
      ]_vars

\* C24: when the error of a failed interactive login is handled while the
\* authentication screen is shown, the screen becomes the environment
\* selection.
C24_LoginFailureReturnsToSelection ==
    [][\A c \in DOMAIN cmds :
          (Handled(c) /\ c.pc = "msg" /\ c.err = "login" /\ state = "Auth")
              => state' = "EnvSelect"
      ]_vars

-----------------------------------------------------------------------------
(* Claims about RemoveFile and Clear of the watch engine *)

\* C25: after the unbind handler called RemoveFile(p) on the tracked path p
\* of an autoPublish binding, the installed watcher no longer tracks p, and
\* the other paths it tracked are still tracked.
C25_RemovedFileNotTracked ==
    [][\A r \in Res :
          (KeyUnbind(r) /\ mWatcher # 0 /\ GetBinding(bindings, cur, r).auto)
              => LET p == Abs(GetBinding(bindings, cur, r).path)
                 IN  watchers'[mWatcher].files = watchers[mWatcher].files \ {p}
      ]_vars

\* C26: after Clear() the watcher tracks no file, its directory-to-files
\* map is empty and none of the OS directory watches it added is left.
C26_ClearReleasesEverything ==
    [][WClear =>
          /\ wt'.files = {}
          /\ \A d \in Dirs : wt'.dirs[d] = <<>>
          /\ wt'.os = {}
      ]_vars

-----------------------------------------------------------------------------
(* Claims about PollForToken (SpecPoll, SpecPollFair) *)

\* C27: when a poll comes back, PollForToken keeps polling on
\* authorization_pending, on a transport failure and on a body that does not
\* decode; on slow_down it keeps polling with a longer interval; on any
\* other error code it fails at once; on a token it returns it with
\* expiresAt = now + expiresIn.
C27_PollResponseHandling ==
    [][(poll.pc = "post" /\ poll'.pc # "post") =>
          CASE poll'.last \in {"authorization_pending", "transport", "decode"} ->
                   poll'.pc = "select" /\ poll'.interval = poll.interval
            [] poll'.last = "slow_down" ->
                   poll'.pc = "select" /\ poll'.interval > poll.interval
            [] poll'.last = "access_denied" ->
                   poll'.pc = "done" /\ poll'.result = "denied"
            [] poll'.last = "token" ->
                   /\ poll'.pc = "done" /\ poll'.result = "token"
                   /\ poll'.expiresAt = pollNow + ExpiresInSec
            [] OTHER -> TRUE
      ]_vars

-----------------------------------------------------------------------------
(* Claims about selecting an environment (SpecSelect) *)

\* C29: a token counts as expired iff now + 5 minutes is later than its
\* expiresAt. "enter" on an environment makes it the current environment in
\* memory and on disk (when the write succeeds); iff the environment has a
\* stored token that is not expired, a client is made from that token, the
\* list screen opens and the resources are fetched, and otherwise the
\* authentication screen opens and a login starts.
C29_SelectRoutesByStoredToken ==
    [][\A i \in 1..Len(doc.envs), t \in SelectTimes, saveOk \in BOOLEAN :
          handleEnvSelectKey(i, t, saveOk) =>
              LET name == doc.envs[i].name
                  e == EnvOf(name)
                  usable == /\ store[e] # NoToken
                            /\ ~(t + ExpiryMarginSec > store[e].expiresAt)
              IN  /\ cur' = e
                  /\ doc'.cur = name
                  /\ saveOk => disk'.cur = name
                  /\ usable =>
                        /\ state' = "List"
                        /\ mClient' = [url |-> UrlOf(e),
                                       c |-> ClientFromStoredToken(store[e].accessToken)]
                        /\ Produced(fetchResources(mClient'))
                  /\ ~usable =>
                        /\ state' = "Auth"
                        /\ mClient' = mClient
                        /\ Produced(authenticateInteractive)
      ]_vars

\* "enter" on A went to the list with the stored token, and the selection
\* is on disk.
C29_Witness ==
    /\ cfgOp.op = "select"
    /\ cfgOp.name = EnvA
    /\ state = "List"
    /\ cur = "A"
    /\ mClient.c.made = "stored"
    /\ fetchResources(mClient) \in DOMAIN cmds
    /\ doc.cur = EnvA
    /\ disk.cur = EnvA

-----------------------------------------------------------------------------
(* Claims about the token files (SpecCred) *)

\* The environment's own token is in its token file.
Holds(files, envName) ==
    /\ tokenFilePath(envName) \in DOMAIN files
    /\ files[tokenFilePath(envName)] = TokenOf(envName)

\* C30: environments of different names have different token files: a
\* LoadToken never returns the token of an environment of another name, and
\* a SaveToken or DeleteToken leaves the token of every environment of
\* another name where it was.
C30_TokenFilesDoNotCollide ==
    /\ (credOp.op = "load" /\ credOp.err = "") => credOp.got = TokenOf(credOp.name)
    /\ credOp.op \in {"save", "delete"} =>
          \A other \in CredNames \ {credOp.name} :
              Holds(credOp.pre, other) => Holds(credFiles, other)

-----------------------------------------------------------------------------
(* Claims about memory and disk of the configuration document (SpecConfig) *)

\* The calls that change the document.
Mutating == {"add", "update", "delete", "bind", "version", "select"}

\* C31: a call that changes the document is all or nothing: after a call
\* that returned no error the document on disk is the document in memory,
\* and after a call that returned an error (a failed write included) the
\* document in memory is what it was before the call.
C31_AllOrNothing ==
    cfgOp.op \in Mutating =>
        /\ cfgOp.err = "" => disk = doc
        /\ cfgOp.err # "" => doc = cfgOp.pre

-----------------------------------------------------------------------------
(* Claims about overlapping publishes (SpecOverlap) *)

\* The patch component of the version of a binding.
Patch(bs, e, r) == Atoi(GetBinding(bs, e, r).ver[3])

\* C32: while no binding is edited, every publish of a binding that
\* completes with success, its version saved, leaves the patch component
\* of the binding's lastKnownVersion one higher than it was: n such
\* publishes, however they overlap, raise it by n.
C32_NoVersionBumpLost ==
    [][\A c \in DOMAIN cmds :
          (/\ nEdits = 0
           /\ c.pc = "run"
           /\ Handled(c)
           /\ \E d \in DOMAIN cmds' : Produced(d) /\ d.out = "success" /\ ~d.lost)
          => Patch(bindings', c.env, c.res) = Patch(bindings, c.env, c.res) + 1
      ]_vars

-----------------------------------------------------------------------------
(* Claims about the Watcher instances of a session (SpecReload) *)

\* The Watcher still hands changes to its callback: it tracks a file whose
\* directory the OS watches.
Delivers(w) == \E path \in w.files : Dir(path) \in w.os

\* C33: however often the resource list is loaded, at most one Watcher
\* instance delivers change notifications to the orchestrator, so that one
\* write to a watched file gives one publish attempt at most: once a
\* Watcher is installed, the instances made before it are closed or cleared.
C33_OneWatcherDelivers ==
    \A i \in 1..Len(watchers) : i < mWatcher => ~Delivers(watchers[i])

-----------------------------------------------------------------------------
(* Claims about the wait on fileChangeChan (SpecPublish) *)

\* C34: once a watcher is ready a waitForFileChange is always pending: in
\* every screen state the handling of a file-change message starts the
\* wait again, so that later notifications are received.
C34_WaitAlwaysPending ==
    /\ [](mWatcher # 0 => waiters > 0)
    /\ [][(chan # <<>> /\ chan' = Tail(chan)) => waiters' >= waiters]_vars

-----------------------------------------------------------------------------
(* Claims about a publish that is in flight while the environment changes
   (SpecSwitch) *)

\* The environment whose client a publish command was given when it was
\* dispatched.
DispatchedFor(c) == {e \in Envs : UrlOf(e) = c.client.url}

\* C35: a publish task reads and updates only the binding of the
\* environment it was dispatched for: when another environment becomes
\* current while it is in flight, it neither reads the path and version of
\* a binding of another environment nor bumps the version of one.
C35_PublishKeepsItsEnvironment ==
    /\ [](\A c \in DOMAIN cmds :
             (c.kind \in {"manual", "auto"} /\ c.pc \in {"run", "msg"} /\ c.env # "")
             => c.env \in DispatchedFor(c))
    /\ [][\A c \in DOMAIN cmds :
             (c.kind \in {"manual", "auto"} /\ c.pc = "run" /\ Handled(c))
             => \A i \in DOMAIN bindings :
                    (i \in DOMAIN bindings' /\ bindings'[i] # bindings[i])
                    => bindings[i].env \in DispatchedFor(c)
       ]_vars

-----------------------------------------------------------------------------
(* Claims about the stored token and the environment's URL (SpecConfig) *)

\* C36: when "enter" on environment E finds a stored token, from which the
\* client for E's URL is made, that token was issued for E's URL as it is
\* now: no rename, URL change, or deletion and re-creation of an
\* environment makes a token of another URL go to E's URL.
C36_StoredTokenIsForTheUrl ==
    (Called("select") /\ tokenFilePath(cfgOp.name) \in DOMAIN cfgOp.preFiles)
        => cfgOp.preFiles[tokenFilePath(cfgOp.name)] = TokenFor(cfgOp.url)

-----------------------------------------------------------------------------
(* Claims about bindings and their environments (SpecConfig) *)

\* C37: no binding is an orphan: the environment field of every binding
\* names an environment of the document, also after a resource creation
\* that was started in an environment completes when that environment has
\* been deleted or renamed. (The bindings looked at are those of names the
\* document had environments for at the start.)
C37_NoOrphanBinding ==
    \A i \in DOMAIN doc.bindings :
        HasEnvironment(InitDoc, doc.bindings[i].env)
            => HasEnvironment(doc, doc.bindings[i].env)

-----------------------------------------------------------------------------
(* Claims about the add and edit flows (SpecInput) *)

\* The environments of c but the i-th.
Others(c, i) == [j \in DOMAIN c.envs \ {i} |-> c.envs[j]]

\* C38: the add flow ("a", name, URL) either appends one environment with
\* exactly the trimmed name that was entered or leaves the document as it
\* is, and never alters an environment or a binding that exists, whatever
\* the name (a name with "|" included); the edit flow ("e", name, URL)
\* applies its update to the environment the cursor was on when "e" was
\* pressed, with exactly the new name that was entered.
C38_AddAppendsEditUpdatesSelected ==
    [][(envInput.inputMode = "url" /\ doc' # doc) =>
          IF envInput.flow = "add"
          THEN /\ Len(doc'.envs) = Len(doc.envs) + 1
               /\ SubSeq(doc'.envs, 1, Len(doc.envs)) = doc.envs
               /\ doc'.envs[Len(doc'.envs)].name = envInput.entered
               /\ doc'.bindings = doc.bindings
               /\ doc'.cur = doc.cur
          ELSE \E i \in DOMAIN doc.envs :
                  /\ doc.envs[i].name = envInput.selected
                  /\ DOMAIN doc'.envs = DOMAIN doc.envs
                  /\ doc'.envs[i].name = envInput.entered
                  /\ Others(doc', i) = Others(doc, i)
      ]_vars

-----------------------------------------------------------------------------
(* Claims about the binding a change notification publishes (Spec) *)

\* The resources of the bindings of environment e that have autoPublish, the
\* absolute path p and a resource of the loaded list: the first in document
\* order, as a set with one element at most.
FirstEligible(bs, e, p, rs) ==
    LET own == GetBindingsForEnvironment(bs, e)
        ok(i) == own[i].auto /\ Abs(own[i].path) = p /\ own[i].res \in rs
    IN  {own[i].res : i \in {k \in DOMAIN own : ok(k) /\ \A j \in 1..(k - 1) : ~ok(j)}}

\* C39: a change notification for path p starts the publish of one binding,
\* the first of the current environment in document order that has
\* autoPublish, the absolute path p and a resource of the loaded list; the
\* marker set when the notification is received is for that resource, and
\* no other binding of the path is published.
C39_MarkerAndPublishSameBinding ==
    [][/\ (chan # <<>> /\ chan' = Tail(chan) /\ ~Dropped) =>
             publishing' \ publishing \subseteq
                 FirstEligible(bindings, cur, Head(chan).path, resources)
       /\ \A c \in DOMAIN cmds :
             (c.kind = "auto" /\ c.pc = "start" /\ Handled(c)) =>
                 \A d \in DOMAIN cmds' :
                     (Produced(d) /\ d.kind = "auto") =>
                         d.res \in FirstEligible(bindings, cur, c.path, c.rs)
      ]_vars


\* C40: in every reachable watcher state the parent directory of each
\* tracked file is on the OS watch list, so run() receives the events of
\* every tracked file; no call drops a directory watch; the tracked set
\* changes only by Clear emptying it or by a successful AddFile adding one
\* untracked path whose directory is then watched, so a failed AddFile and
\* an AddFile on a tracked path leave the tracked set and the watches as
\* they were.
C40_TrackedFilesAreWatched ==
    /\ [](\A p \in wt.files : Dir(p) \in wt.os)
    /\ [][/\ wt.os \subseteq wt'.os
          /\ wt'.files # wt.files =>
                \/ wt'.files = {}
                \/ \E p \in Paths \ wt.files :
                      /\ wt'.files = wt.files \cup {p}
                      /\ Dir(p) \in wt'.os
                      /\ wt'.os \subseteq wt.os \cup {Dir(p)}]_vars

\* A file tracked again after Clear: AddFile found its directory already
\* listed in dirs and relied on the watch made by the first AddFile, while
\* another directory has no watch and no tracked file.
C40_Witness ==
    \E p \in wt.files :
        /\ wt.dirs[Dir(p)] = <<p, p>>
        /\ Dir(p) \in wt.os
        /\ \E d \in Dirs \ wt.os : \A q \in wt.files : Dir(q) # d
=============================================================================
